---- MODULE Spec2Model ----
(***************************************************************************)
(* Structural design suite: the calculation engine (section formulas and   *)
(* beam solvers) of its three source variants,                             *)
(*   "p0"  src/unnamed/part_000  (CivilSuite class, DOM-bound solvers)     *)
(*   "p1"  src/unnamed/part_001  (earlier CivilSuite class)                *)
(*   "p2"  src/unnamed/part_002  (calculationEngine, driven by src/app.js) *)
(*                                                                         *)
(* JavaScript Numbers are modelled as decimal floating-point values with   *)
(* an 8-digit mantissa, rounded to nearest after every operation, plus     *)
(* NaN, +Infinity and -Infinity with the IEEE-754 rules the code relies on *)
(* (x/0, 0/0, NaN comparisons false, Math.max/min propagating NaN).        *)
(***************************************************************************)
EXTENDS Integers, Sequences, FiniteSets, TLC

(***************************************************************************)
(* Numbers                                                                 *)
(***************************************************************************)
MantMin == 10^7
MantMax == 10^8

NaN  == [k |-> "nan",  m |-> 0, e |-> 0]
PInf == [k |-> "pinf", m |-> 0, e |-> 0]
NInf == [k |-> "ninf", m |-> 0, e |-> 0]
Zero == [k |-> "fin",  m |-> 0, e |-> 0]

Sgn(i) == IF i < 0 THEN -1 ELSE IF i > 0 THEN 1 ELSE 0
Mag(i) == IF i < 0 THEN -i ELSE i

\* m * 10^e with the mantissa brought into [MantMin, MantMax), rounding to nearest
RECURSIVE NormUp(_, _)
NormUp(m, e) ==
    IF Mag(m) < MantMin THEN NormUp(m * 10, e - 1)
    ELSE [k |-> "fin", m |-> m, e |-> e]

Norm(m, e) ==
    IF m = 0 THEN Zero
    ELSE IF Mag(m) >= 10^9
         THEN LET r == (Mag(m) + 50) \div 100
              IN  IF r >= MantMax THEN [k |-> "fin", m |-> Sgn(m) * (r \div 10), e |-> e + 3]
                  ELSE [k |-> "fin", m |-> Sgn(m) * r, e |-> e + 2]
    ELSE IF Mag(m) >= MantMax
         THEN LET r == (Mag(m) + 5) \div 10
              IN  IF r >= MantMax THEN [k |-> "fin", m |-> Sgn(m) * (r \div 10), e |-> e + 2]
                  ELSE [k |-> "fin", m |-> Sgn(m) * r, e |-> e + 1]
    ELSE NormUp(m, e)

\* the integer n, and the decimal literal n * 10^(-p)  (Dec(138, 3) is 0.138)
Num(n)    == Norm(n, 0)
Dec(n, p) == Norm(n, -p)

IsNaN(a)    == a.k = "nan"
IsFinite(a) == a.k = "fin"
IsZero(a)   == a.k = "fin" /\ a.m = 0
\* -1, 0, 1 for a value that is not NaN
SignOf(a) == IF a.k = "pinf" THEN 1 ELSE IF a.k = "ninf" THEN -1 ELSE Sgn(a.m)
InfOfSign(s) == IF s > 0 THEN PInf ELSE NInf

Neg(a) ==
    IF a.k = "nan" THEN NaN
    ELSE IF a.k = "pinf" THEN NInf
    ELSE IF a.k = "ninf" THEN PInf
    ELSE [k |-> "fin", m |-> -a.m, e |-> a.e]

\* a + b: the operands are aligned on the larger exponent with one guard digit
AddFin(a, b) ==
    IF a.m = 0 THEN b
    ELSE IF b.m = 0 THEN a
    ELSE LET hi == IF a.e >= b.e THEN a ELSE b
             lo == IF a.e >= b.e THEN b ELSE a
             df == hi.e - lo.e
             sh == IF df > 9 THEN 0
                   ELSE IF df = 0 THEN lo.m * 10
                   ELSE Sgn(lo.m) * (Mag(lo.m) \div (10^(df - 1)))
         IN  Norm(hi.m * 10 + sh, hi.e - 1)

Add(a, b) ==
    IF a.k = "nan" \/ b.k = "nan" THEN NaN
    ELSE IF a.k = "fin" /\ b.k = "fin" THEN AddFin(a, b)
    ELSE IF a.k = "fin" THEN b
    ELSE IF b.k = "fin" THEN a
    ELSE IF a.k = b.k THEN a
    ELSE NaN

Sub(a, b) == Add(a, Neg(b))

\* a * b: the 16-digit product of the mantissas, cut to 9 digits without overflow
MulFin(a, b) ==
    LET x  == Mag(a.m)
        y  == Mag(b.m)
        xh == x \div 10000
        xl == x % 10000
        yh == y \div 10000
        yl == y % 10000
        q  == (xh * yh) * 10 + ((xh * yl + xl * yh + ((xl * yl) \div 10000)) \div 1000)
    IN  IF x = 0 \/ y = 0 THEN Zero
        ELSE Norm(Sgn(a.m) * Sgn(b.m) * q, a.e + b.e + 7)

Mul(a, b) ==
    IF a.k = "nan" \/ b.k = "nan" THEN NaN
    ELSE IF a.k = "fin" /\ b.k = "fin" THEN MulFin(a, b)
    ELSE IF SignOf(a) = 0 \/ SignOf(b) = 0 THEN NaN
    ELSE InfOfSign(SignOf(a) * SignOf(b))

\* a / b: long division of the mantissas to 9 digits
RECURSIVE LongDiv(_, _, _, _)
LongDiv(r, y, n, acc) ==
    IF n = 0 THEN acc
    ELSE LongDiv((r * 10) % y, y, n - 1, acc * 10 + ((r * 10) \div y))

DivFin(a, b) ==
    LET x == Mag(a.m)
        y == Mag(b.m)
        q == LongDiv(x % y, y, 8, x \div y)
    IN  Norm(Sgn(a.m) * Sgn(b.m) * q, a.e - b.e - 8)

Div(a, b) ==
    IF a.k = "nan" \/ b.k = "nan" THEN NaN
    ELSE IF a.k = "fin" /\ b.k = "fin"
         THEN IF b.m = 0
              THEN IF a.m = 0 THEN NaN ELSE InfOfSign(Sgn(a.m))
              ELSE IF a.m = 0 THEN Zero ELSE DivFin(a, b)
    ELSE IF a.k = "fin" THEN Zero
    ELSE IF b.k = "fin" THEN InfOfSign(SignOf(a) * (IF b.m < 0 THEN -1 ELSE 1))
    ELSE NaN

\* comparisons: every comparison with NaN is false
Lt(a, b) ==
    /\ a.k # "nan" /\ b.k # "nan"
    /\ IF a.k = "fin" /\ b.k = "fin" THEN Sgn(AddFin(a, Neg(b)).m) < 0
       ELSE IF a.k = b.k THEN FALSE
       ELSE a.k = "ninf" \/ b.k = "pinf"
Eq(a, b) == a.k # "nan" /\ b.k # "nan" /\ a = b
Le(a, b) == Lt(a, b) \/ Eq(a, b)
Gt(a, b) == Lt(b, a)
Ge(a, b) == Le(b, a)

\* Math.max / Math.min of two values: NaN if either is NaN
Max(a, b) == IF a.k = "nan" \/ b.k = "nan" THEN NaN ELSE IF Lt(a, b) THEN b ELSE a
Min(a, b) == IF a.k = "nan" \/ b.k = "nan" THEN NaN ELSE IF Lt(b, a) THEN b ELSE a
Abs(a)    == IF a.k = "nan" THEN NaN ELSE IF SignOf(a) < 0 THEN Neg(a) ELSE a

\* Math.sqrt: integer square root of the mantissa, refined by two Newton steps
RECURSIVE ISqrt(_, _, _)
ISqrt(n, lo, hi) ==
    IF lo >= hi THEN lo
    ELSE LET mid == (lo + hi + 1) \div 2
         IN  IF mid * mid <= n THEN ISqrt(n, mid, hi) ELSE ISqrt(n, lo, mid - 1)

SqrtFin(a) ==
    LET odd == a.e % 2 = 1
        m2  == IF odd THEN a.m * 10 ELSE a.m
        e2  == IF odd THEN a.e - 1 ELSE a.e
        x0  == Norm(ISqrt(m2, 0, 31700), e2 \div 2)
        x1  == MulFin(Dec(5, 1), AddFin(x0, DivFin(a, x0)))
        x2  == MulFin(Dec(5, 1), AddFin(x1, DivFin(a, x1)))
    IN  x2

Sqrt(a) ==
    IF a.k = "nan" \/ a.k = "ninf" THEN NaN
    ELSE IF a.k = "pinf" THEN PInf
    ELSE IF a.m < 0 THEN NaN
    ELSE IF a.m = 0 THEN Zero
    ELSE SqrtFin(a)


\* Math.floor
Floor(a) ==
    IF a.k # "fin" \/ a.e >= 0 THEN a
    ELSE IF -a.e > 8 THEN (IF a.m < 0 THEN Num(-1) ELSE Zero)
    ELSE Norm(a.m \div (10^(-a.e)), 0)

\* Math.ceil
Ceil(a) == Neg(Floor(Neg(a)))

\* Math.PI
Pi == Dec(31415927, 7)

\* the number printed by toFixed(0): the nearest integer
ToFixed0(a) == IF a.k # "fin" THEN a ELSE IF a.m < 0 THEN Neg(Floor(Add(Neg(a), Dec(5, 1)))) ELSE Floor(Add(a, Dec(5, 1)))

\* Math.pow(a, 3) and Math.pow(a, 4)
Pow3(a) == Mul(Mul(a, a), a)
Pow4(a) == Mul(Mul(Mul(a, a), a), a)

\* Math.max of three values
Max3(a, b, c) == Max(Max(a, b), c)

(***************************************************************************)
(* Section formulas, part_000 (class CivilSuiteApp)                        *)
(***************************************************************************)
\* 0.138 * fck * b * d * d
Mulim(fck, b, d) == Mul(Mul(Mul(Mul(Dec(138, 3), fck), b), d), d)

\* (0.0035 / (0.0055 + 0.87 * fy / 200000)) * d
xulim(fy, d) ==
    Mul(Div(Dec(35, 4), Add(Dec(55, 4), Div(Mul(Dec(87, 2), fy), Num(200000)))), d)

\* a tie-break that sends M = Mulim to the doubly-reinforced branch
SteelBranchStrict(M, fck, fy, b, d) ==
    IF Lt(M, Mulim(fck, b, d)) THEN "singly" ELSE "doubly"

\* the branch calculateSteelArea takes: if (M <= Mulim) ... else ...
SteelBranch(M, fck, fy, b, d) ==
    IF Le(M, Mulim(fck, b, d)) THEN "singly" ELSE "doubly"

calculateSteelArea(M, fck, fy, b, d) ==
    IF SteelBranch(M, fck, fy, b, d) = "singly"
    THEN LET k  == Div(M, Mul(Mul(Mul(fck, b), d), d))
             la == Mul(Dec(5, 1), Add(Num(1), Sqrt(Sub(Num(1), Mul(Dec(4598, 3), k)))))
             z  == Mul(la, d)
         IN  Div(M, Mul(Mul(Dec(87, 2), fy), z))
    ELSE LET M1   == Mulim(fck, b, d)
             M2   == Sub(M, M1)
             Ast1 == Div(M1, Mul(Mul(Dec(87, 2), fy), Sub(d, Mul(Dec(416, 3), xulim(fy, d)))))
             Ast2 == Div(M2, Mul(Mul(Dec(87, 2), fy), Sub(d, Num(50))))
         IN  Add(Ast1, Ast2)

calculateMomentCapacity(Ast, fy, fck, b, d) ==
    LET fsc == Mul(Dec(87, 2), fy)
        xx  == Div(Mul(fsc, Ast), Mul(Mul(Dec(36, 2), fck), b))
        z   == Sub(d, Mul(Dec(416, 3), xx))
    IN  Mul(Mul(Mul(Dec(87, 2), fy), Ast), z)

calculateShearCapacity(fck, b, d) ==
    LET tau_c == Mul(Dec(25, 2), Sqrt(fck))
    IN  Mul(Mul(tau_c, b), d)

(***************************************************************************)
(* Section formulas, part_001 (earlier class CivilSuiteApp)                *)
(***************************************************************************)
\* 0.36 * fck * b * xulim * (d - 0.416 * xulim)
Mulim_v1(fck, fy, b, d) ==
    Mul(Mul(Mul(Mul(Dec(36, 2), fck), b), xulim(fy, d)),
        Sub(d, Mul(Dec(416, 3), xulim(fy, d))))

SteelBranch_v1(M, fck, fy, b, d) ==
    IF Le(M, Mulim_v1(fck, fy, b, d)) THEN "singly" ELSE "doubly"

calculateSteelArea_v1(M, fck, fy, b, d) ==
    LET fsc == Mul(Dec(87, 2), fy)
    IN  IF SteelBranch_v1(M, fck, fy, b, d) = "singly"
        THEN LET xx == Mul(d, Sub(Num(1), Sqrt(Sub(Num(1),
                          Div(Mul(Dec(46, 1), M), Mul(Mul(Mul(fck, b), d), d))))))
             IN  Div(Mul(Mul(Mul(Dec(36, 2), fck), b), xx), fsc)
        ELSE Add(Div(Sub(M, Mulim_v1(fck, fy, b, d)), Mul(fsc, Sub(d, Num(50)))),
                 Div(Mul(Mul(Mul(Dec(36, 2), fck), b), xulim(fy, d)), fsc))

calculateMomentCapacity_v1(Ast, fy, fck, b, d) ==
    LET fsc == Mul(Dec(87, 2), fy)
        xx  == Div(Mul(fsc, Ast), Mul(Mul(Dec(36, 2), fck), b))
    IN  Mul(Mul(Mul(Mul(Dec(36, 2), fck), b), xx), Sub(d, Mul(Dec(416, 3), xx)))

\* part_001 has no shear function; runBeamAnalysis computes, with b in mm,
\* shearCapacity = 0.5 * Math.sqrt(fck) * b * d / 1000 (kN)
shearCapacity_v1(fck, b, d) ==
    Div(Mul(Mul(Mul(Dec(5, 1), Sqrt(fck)), b), d), Num(1000))

(***************************************************************************)
(* Section formulas, part_002 (calculationEngine)                          *)
(***************************************************************************)
engine_mu_lim(fck, b, d) == Mul(Mul(Mul(Mul(Dec(138, 3), fck), b), d), d)

engine_calculateDoublyReinforcedSteel(moment, fck, fy, b, d) ==
    LET mu_lim == engine_mu_lim(fck, b, d)
        Ast1   == Div(mu_lim, Mul(Mul(Dec(87, 2), fy),
                                  Sub(d, Mul(Mul(Dec(416, 3), Dec(48, 2)), d))))
        mu2    == Sub(moment, mu_lim)
        Ast2   == Div(mu2, Mul(Mul(Dec(87, 2), fy), Sub(d, Num(25))))
    IN  Add(Ast1, Ast2)

\* the branch taken: if (momentNmm > mu_lim) doubly, else singly
engine_SteelBranch(moment, fck, fy, b, d) ==
    IF Gt(moment, engine_mu_lim(fck, b, d)) THEN "doubly" ELSE "singly"

engine_calculateSteelArea(moment, fck, fy, b, d) ==
    IF engine_SteelBranch(moment, fck, fy, b, d) = "doubly"
    THEN engine_calculateDoublyReinforcedSteel(moment, fck, fy, b, d)
    ELSE LET R       == Div(moment, Mul(Mul(b, d), d))
             pt      == Mul(Div(Mul(Num(50), fck), fy),
                            Sub(Num(1), Sqrt(Sub(Num(1), Div(Mul(Dec(46, 1), R), fck)))))
             Ast     == Div(Mul(Mul(pt, b), d), Num(100))
             Ast_min == Max(Mul(Mul(Dec(12, 4), b), d), Div(Mul(Mul(Dec(85, 2), b), d), fy))
             Ast_max == Mul(Mul(Dec(4, 2), b), d)
         IN  Min(Max(Ast, Ast_min), Ast_max)

engine_calculateMomentCapacity(Ast, fy, fck, b, d) ==
    LET xu     == Div(Mul(Mul(Dec(87, 2), fy), Ast), Mul(Mul(Dec(36, 2), fck), b))
        xu_max == Mul(Dec(48, 2), d)
    IN  IF Gt(xu, xu_max)
        THEN Mul(Mul(Mul(Mul(Dec(138, 3), fck), b), d), d)
        ELSE Mul(Mul(Mul(Mul(Dec(36, 2), fck), b), xu), Sub(d, Mul(Dec(416, 3), xu)))

engine_calculateShearCapacity(fck, b, d, Ast) ==
    LET pt    == Div(Mul(Ast, Num(100)), Mul(b, d))
        tau_0 == IF Le(pt, Dec(15, 2)) THEN Dec(28, 2)
                 ELSE IF Le(pt, Dec(25, 2)) THEN Dec(36, 2)
                 ELSE IF Le(pt, Dec(50, 2)) THEN Dec(48, 2)
                 ELSE IF Le(pt, Dec(75, 2)) THEN Dec(56, 2)
                 ELSE IF Le(pt, Num(1)) THEN Dec(62, 2)
                 ELSE Dec(67, 2)
        tau_c == Mul(tau_0, Sqrt(Div(fck, Num(25))))
    IN  Mul(Mul(tau_c, b), d)

(***************************************************************************)
(* State                                                                   *)
(***************************************************************************)
VARIABLES
    sfIn,      \* section-formula call: [variant, fck, fy, b, d], the arguments held fixed
    sfSteel,   \* result of the first requiredSteelArea call: [done, M, branch, Ast]
    sfSteel2,  \* result of a second call with another moment
    sfCap,     \* result of momentCapacity on the first call's steel: [done, Ast, cap]
    sfShear,   \* result of shearCapacity: [done, cap]
    prog,      \* the program that runs: "p0" (part_000) or "app" (app.js + part_002)
    dom,       \* part_000: the values of the beam input fields of the page
    beam,      \* app.js: this.state.beam
    history,   \* app.js: this.state.history, most recent first
    invocation,\* the last beam solver invocation: its outcome and the geometry it read
    result,    \* the values the last publishing invocation wrote to the page
    steps,     \* number of user events handled so far
    units,     \* app.js: this.state.units.system
    log,       \* the beam solver invocations so far: [params, units, outcome, result]
    bfIn,      \* beam-forces call: [variant, type, L, w, P, a], the arguments held fixed
    bfOut,     \* result of the beam-forces call: [done, reactions, maxShear, maxMoment]
    sfd,       \* part_000: the points generateSFDData returned for the call, <<>> before
    fmtIn,     \* formatReinforcement call: [variant, area]
    fmtOut,    \* its result: [done, kind, num, dia, area]
    colDom,    \* part_000: the values of the column input fields of the page
    column,    \* app.js: this.state.column
    slab,      \* app.js: this.state.slab
    colResult, \* the column parameters read and the values written by the last column design
    slabResult,\* the values shown by the last slab design
    form,      \* app.js page: the values of the column and slab input fields
    bbsBars,   \* app.js: this.state.bbs.bars
    now,       \* the millisecond clock read by Date.now()
    lastRun,   \* <<item>>: the history item of the latest analysis since the list was replaced
    beamFields,\* app.js page: the values of the beam input fields
    pending,   \* uiManager.js: the field whose debounce timer is set, <<>> when none is
    timers,    \* the callbacks scheduled with setTimeout by the run buttons and hideLoading
    overlay    \* style.display of the loading overlay: "flex" or "none"

sectionVars == <<sfIn, sfSteel, sfSteel2, sfCap, sfShear>>
solverVars  == <<prog, dom, beam, history, invocation, result, steps, units, log>>
forceVars   == <<bfIn, bfOut, sfd>>
formatVars  == <<fmtIn, fmtOut>>
memberVars  == <<colDom, column, slab, colResult, slabResult, form>>
eventVars   == <<beamFields, pending, timers, overlay>>
uiVars      == <<bbsBars, now, lastRun, eventVars>>
otherVars   == <<forceVars, formatVars, memberVars, uiVars>>
vars == <<sectionVars, solverVars, otherVars>>

(***************************************************************************)
(* The section formulas as called through one variant                      *)
(***************************************************************************)
Variants == {"p0", "p1", "p2"}

sf_limitingMoment(v, fck, fy, b, d) ==
    IF v = "p0" THEN Mulim(fck, b, d)
    ELSE IF v = "p1" THEN Mulim_v1(fck, fy, b, d)
    ELSE engine_mu_lim(fck, b, d)

sf_steelBranch(v, M, fck, fy, b, d) ==
    IF v = "p0" THEN SteelBranch(M, fck, fy, b, d)
    ELSE IF v = "p1" THEN SteelBranch_v1(M, fck, fy, b, d)
    ELSE engine_SteelBranch(M, fck, fy, b, d)

sf_requiredSteelArea(v, M, fck, fy, b, d) ==
    IF v = "p0" THEN calculateSteelArea(M, fck, fy, b, d)
    ELSE IF v = "p1" THEN calculateSteelArea_v1(M, fck, fy, b, d)
    ELSE engine_calculateSteelArea(M, fck, fy, b, d)

sf_momentCapacity(v, Ast, fy, fck, b, d) ==
    IF v = "p0" THEN calculateMomentCapacity(Ast, fy, fck, b, d)
    ELSE IF v = "p1" THEN calculateMomentCapacity_v1(Ast, fy, fck, b, d)
    ELSE engine_calculateMomentCapacity(Ast, fy, fck, b, d)

sf_shearCapacity(v, fck, b, d, Ast) ==
    IF v = "p0" THEN calculateShearCapacity(fck, b, d)
    ELSE IF v = "p1" THEN shearCapacity_v1(fck, b, d)
    ELSE engine_calculateShearCapacity(fck, b, d, Ast)

(***************************************************************************)
(* Beam solver, part_000: runBeamAnalysis reads the page's input fields    *)
(***************************************************************************)
\* this.materialDB.concrete: the grades of the table, and Ec of a grade
ConcreteGrades == {Num(20), Num(25), Num(30), Num(35), Num(40)}
concreteEc(fck) ==
    IF fck = Num(20) THEN Num(22360)
    ELSE IF fck = Num(25) THEN Num(25000)
    ELSE IF fck = Num(30) THEN Num(27386)
    ELSE IF fck = Num(35) THEN Num(29580)
    ELSE Num(31623)

BeamTypes == {"simply-supported", "cantilever", "fixed", "continuous"}

\* calculateMomentOfInertia(b, D)
calculateMomentOfInertia(b, D) == Div(Mul(b, Pow3(D)), Num(12))

\* the switch(type) of runBeamAnalysis: reactions, maxShear, maxMoment, maxDeflection
\* forces that put the point load at midspan, whatever its position
beamForcesMidspanLoad(type, L, w, P, a, b, D, Ec) ==
    [left |-> Add(Div(Mul(w, L), Num(2)), Mul(P, Dec(5, 1))),
     right |-> Add(Div(Mul(w, L), Num(2)), Mul(P, Dec(5, 1))),
     maxShear |-> Add(Div(Mul(w, L), Num(2)), Mul(P, Dec(5, 1))),
     maxMoment |-> Add(Div(Mul(Mul(w, L), L), Num(8)), Div(Mul(P, L), Num(4))),
     maxDeflection |-> Zero]

\* forces that put the point load at the free end, whatever its position
beamForcesFreeEndLoad(type, L, w, P, a, b, D, Ec) ==
    [left |-> Add(Mul(w, L), P), right |-> Zero, maxShear |-> Add(Mul(w, L), P),
     maxMoment |-> Add(Div(Mul(Mul(w, L), L), Num(2)), Mul(P, L)),
     maxDeflection |-> Zero]

\* the switch(type) of runBeamAnalysis: reactions, maxShear, maxMoment, maxDeflection
beamForces(type, L, w, P, a, b, D, Ec) ==
    LET I == calculateMomentOfInertia(b, D)
    IN  IF type = "simply-supported"
        THEN LET left  == Add(Div(Mul(w, L), Num(2)), Div(Mul(P, Sub(L, a)), L))
                 right == Add(Div(Mul(w, L), Num(2)), Div(Mul(P, a), L))
                 M_udl   == Div(Mul(Mul(w, L), L), Num(8))
                 M_point == Div(Mul(Mul(P, a), Sub(L, a)), L)
                 deflection_udl   == Div(Mul(Mul(Num(5), w), Pow4(L)),
                                         Mul(Mul(Mul(Num(384), Ec), I), Num(1000000)))
                 deflection_point == Div(Mul(Mul(P, a), Sub(Mul(Mul(Num(3), L), L),
                                                           Mul(Mul(Num(4), a), a))),
                                         Mul(Mul(Mul(Num(48), Ec), I), Num(1000000)))
             IN  [left |-> left, right |-> right, maxShear |-> Max(left, right),
                  maxMoment |-> Add(M_udl, M_point),
                  maxDeflection |-> Mul(Add(deflection_udl, deflection_point), Num(1000))]
        ELSE IF type = "cantilever"
        THEN LET left == Add(Mul(w, L), P)
                 d_udl   == Div(Mul(w, Pow4(L)), Mul(Mul(Mul(Num(8), Ec), I), Num(1000000)))
                 d_point == Div(Mul(P, Pow3(a)), Mul(Mul(Mul(Num(3), Ec), I), Num(1000000)))
             IN  [left |-> left, right |-> Zero, maxShear |-> left,
                  maxMoment |-> Add(Div(Mul(Mul(w, L), L), Num(2)), Mul(P, a)),
                  maxDeflection |-> Mul(Add(d_udl, d_point), Num(1000))]
        ELSE IF type = "fixed"
        THEN LET left == Div(Mul(w, L), Num(2))
             IN  [left |-> left, right |-> left, maxShear |-> left,
                  maxMoment |-> Div(Mul(Mul(w, L), L), Num(12)),
                  maxDeflection |-> Mul(Div(Mul(w, Pow4(L)),
                                            Mul(Mul(Mul(Num(384), Ec), I), Num(1000000))),
                                        Num(1000))]
        ELSE IF type = "continuous"
        THEN LET left   == Div(Mul(Mul(Num(3), w), L), Num(8))
                 middle == Div(Mul(Mul(Num(10), w), L), Num(8))
             IN  [left |-> left, right |-> left, maxShear |-> Max3(left, left, middle),
                  maxMoment |-> Div(Mul(Mul(w, L), L), Num(8)),
                  maxDeflection |-> Mul(Div(Mul(w, Pow4(L)),
                                            Mul(Mul(Mul(Num(185), Ec), I), Num(1000000))),
                                        Num(1000))]
        ELSE [left |-> Zero, right |-> Zero, maxShear |-> Zero, maxMoment |-> Zero,
              maxDeflection |-> Zero]

NoResult ==
    [shown |-> FALSE, L |-> Zero, maxShear |-> Zero, maxMoment |-> Zero,
     maxDeflection |-> Zero, Ast |-> Zero, Ast_min |-> Zero, momentCapacity |-> Zero,
     shearCapacity |-> Zero, utilization |-> Zero, deflectionCheck |-> "", designStatus |-> "",
     stirrups |-> Zero, isSafe |-> FALSE]

\* a verdict that also reads the page: it passes only while no result has been
\* written before
beamIsSafeFirstTime(momentCapacity, shearCapacity, maxMoment, maxShear, maxDeflection, L) ==
    /\ ~result.shown
    /\ Ge(momentCapacity, Mul(maxMoment, Num(1000000)))
    /\ Ge(shearCapacity, Mul(maxShear, Num(1000)))
    /\ Lt(maxDeflection, Div(Mul(L, Num(1000)), Num(250)))

\* isSafe of runBeamAnalysis: moment, shear and deflection checks
beamIsSafe(momentCapacity, shearCapacity, maxMoment, maxShear, maxDeflection, L) ==
    /\ Ge(momentCapacity, Mul(maxMoment, Num(1000000)))
    /\ Ge(shearCapacity, Mul(maxShear, Num(1000)))
    /\ Lt(maxDeflection, Div(Mul(L, Num(1000)), Num(250)))

\* Ast_min = Math.max(0.0012 * b * 1000 * D * 1000, 0.85 * b * 1000 * d / fy)
beamAstMin(b, D, d, fy) ==
    Max(Mul(Mul(Mul(Mul(Dec(12, 4), b), Num(1000)), D), Num(1000)),
        Div(Mul(Mul(Mul(Dec(85, 2), b), Num(1000)), d), fy))

\* utilization = (maxMoment * 1e6) / momentCapacity
beamUtilization(maxMoment, momentCapacity) ==
    Div(Mul(maxMoment, Num(1000000)), momentCapacity)

\* the stirrup spacing written to beamShearSteel; Zero stands for the text
\* 'Minimum shear reinforcement required'
beamStirrups(maxShear, fck, fy, b_mm, d) ==
    LET shearStress == Div(Mul(maxShear, Num(1000)), Mul(b_mm, d))
        concreteShearStrength == Mul(Dec(25, 2), Sqrt(fck))
        Vus      == Sub(Mul(maxShear, Num(1000)), Mul(Mul(Mul(Dec(5, 1), Sqrt(fck)), b_mm), d))
        Asv_req  == Div(Mul(Vus, Num(1000)), Mul(Mul(Dec(87, 2), fy), d))
        spacing  == Min(Floor(Div(Mul(Mul(Num(2), Dec(503, 1)), Num(1000)), Asv_req)), Num(300))
    IN  IF Gt(shearStress, concreteShearStrength) THEN spacing ELSE Zero

\* the values runBeamAnalysis writes to the page ("Update results" to the status)
beamPublish(f, L, Ast, Ast_min, momentCapacity, shearCapacity, stirrups) ==
    [shown |-> TRUE, L |-> L,
     maxShear |-> f.maxShear, maxMoment |-> f.maxMoment, maxDeflection |-> f.maxDeflection,
     Ast |-> Ast, Ast_min |-> Ast_min,
     momentCapacity |-> momentCapacity, shearCapacity |-> shearCapacity,
     utilization |-> beamUtilization(f.maxMoment, momentCapacity),
     deflectionCheck |-> IF Lt(f.maxDeflection, Div(Mul(L, Num(1000)), Num(250)))
                         THEN "PASS" ELSE "FAIL",
     designStatus |-> IF Le(beamUtilization(f.maxMoment, momentCapacity), Num(1))
                      THEN "Adequate" ELSE "Inadequate",
     stirrups |-> stirrups,
     isSafe |-> beamIsSafe(momentCapacity, shearCapacity, f.maxMoment, f.maxShear,
                           f.maxDeflection, L)]

\* "Calculate capacities": momentCapacity and shearCapacity of the provided steel
beamCapacities(f, L, b_mm, d, fck, fy, Ast, Ast_min) ==
    beamPublish(f, L, Ast, Ast_min,
                calculateMomentCapacity(Ast, fy, fck, b_mm, d),
                calculateShearCapacity(fck, b_mm, d),
                beamStirrups(f.maxShear, fck, fy, b_mm, d))

\* "Calculate reinforcement": Ast = Math.max(Ast_req, Ast_min)
beamReinforcement(f, L, b, D, d, fck, fy) ==
    beamCapacities(f, L, Mul(b, Num(1000)), d, fck, fy,
                   Max(calculateSteelArea(Mul(f.maxMoment, Num(1000000)), fck, fy,
                                          Mul(b, Num(1000)), d),
                       beamAstMin(b, D, d, fy)),
                   beamAstMin(b, D, d, fy))

\* d = D * 1000 - cover * 1000 - 10
beamDesign(f, L, b, D, fck, fy, cover) ==
    beamReinforcement(f, L, b, D,
                      Sub(Sub(Mul(D, Num(1000)), Mul(cover, Num(1000))), Num(10)), fck, fy)

\* runBeamAnalysis: "returned" without writing when the span is NaN or <= 0; "threw"
\* when the concrete grade is not in the table (concrete.Ec of undefined); else the
\* results are written
runBeamAnalysisOutcome(in) ==
    IF IsNaN(in.beamLength) \/ Le(in.beamLength, Zero) THEN "returned"
    ELSE IF in.beamType \in BeamTypes /\ in.beamFck \notin ConcreteGrades THEN "threw"
    ELSE "published"

runBeamAnalysisResult(in) ==
    beamDesign(beamForces(in.beamType, in.beamLength, in.beamUDL, in.beamPointLoad,
                          in.beamPointLoadPos, Div(in.beamWidth, Num(1000)),
                          Div(in.beamDepth, Num(1000)), concreteEc(in.beamFck)),
               in.beamLength, Div(in.beamWidth, Num(1000)), Div(in.beamDepth, Num(1000)),
               in.beamFck, in.beamFy, Div(in.beamCover, Num(1000)))

(***************************************************************************)
(* Beam solver, app.js: runBeamAnalysis reads this.state.beam and calls    *)
(* the calculationEngine of part_002                                       *)
(***************************************************************************)
\* getUnitConfig(system)
UnitSystems == {"metric", "imperial"}

\* convertBeamStateToMetric: a copy under the metric system, else every key times
\* (toMetric[key] || 1); the type, a string, times 1 is NaN
convertBeamStateToMetric(params, system) ==
    IF system = "metric" THEN params
    ELSE [type |-> "NaN", L |-> Mul(params.L, Dec(3048, 4)), b |-> Mul(params.b, Dec(254, 1)),
          D |-> Mul(params.D, Dec(254, 1)), DL |-> Mul(params.DL, Dec(145939, 4)),
          LL |-> Mul(params.LL, Dec(145939, 4)), fck |-> Mul(params.fck, Num(1)),
          fy |-> Mul(params.fy, Num(1)), cover |-> Mul(params.cover, Dec(254, 1))]

\* metric.factoredUDL = 1.5 * (metric.DL + metric.LL)
app_withFactoredUDL(m) ==
    [type |-> m.type, L |-> m.L, b |-> m.b, D |-> m.D, DL |-> m.DL, LL |-> m.LL,
     fck |-> m.fck, fy |-> m.fy, cover |-> m.cover,
     factoredUDL |-> Mul(Dec(15, 1), Add(m.DL, m.LL))]

\* the switch(type) of calculationEngine.calculateBeamForces
engine_beamForcesRaw(type, L, factoredUDL, w, E, I) ==
    IF type = "simply-supported"
    THEN [maxShear |-> Div(Mul(factoredUDL, L), Num(2)),
          maxMoment |-> Div(Mul(Mul(factoredUDL, L), L), Num(8)),
          maxDeflection |-> Div(Mul(Mul(Num(5), w), Pow4(L)), Mul(Mul(Num(384), E), I))]
    ELSE IF type = "cantilever"
    THEN [maxShear |-> Mul(factoredUDL, L),
          maxMoment |-> Div(Mul(Mul(factoredUDL, L), L), Num(2)),
          maxDeflection |-> Div(Mul(w, Pow4(L)), Mul(Mul(Num(8), E), I))]
    ELSE IF type = "fixed"
    THEN [maxShear |-> Div(Mul(factoredUDL, L), Num(2)),
          maxMoment |-> Div(Mul(Mul(factoredUDL, L), L), Num(12)),
          maxDeflection |-> Div(Mul(w, Pow4(L)), Mul(Mul(Num(384), E), I))]
    ELSE [maxShear |-> Zero, maxMoment |-> Zero, maxDeflection |-> Zero]

\* the return statement of calculateBeamForces
engine_beamForcesReturn(raw) ==
    [maxShear |-> Abs(raw.maxShear), maxMoment |-> Abs(raw.maxMoment),
     maxDeflection |-> Abs(Mul(raw.maxDeflection, Num(1000)))]

\* the cases of switch(type) in calculateBeamForces
EngineTypes == {"simply-supported", "cantilever", "fixed"}

\* calculationEngine.calculateBeamForces(metric)
engine_calculateBeamForces(metric) ==
    engine_beamForcesReturn(
        engine_beamForcesRaw(metric.type, metric.L, metric.factoredUDL,
                             Mul(metric.factoredUDL, Num(1000)),
                             Mul(Num(5000), Sqrt(metric.fck)),
                             Div(Mul(metric.b, Pow3(metric.D)), Num(12))))

\* utilization = momentCapacity > 0 ? (forces.maxMoment * 1e6) / momentCapacity : 1
app_utilization(maxMoment, momentCapacity) ==
    IF Gt(momentCapacity, Zero)
    THEN Div(Mul(maxMoment, Num(1000000)), momentCapacity)
    ELSE Num(1)

\* isSafe = utilization <= 1.0 && forces.maxDeflection <= deflectionLimit
app_isSafe(utilization, maxDeflection, deflectionLimit) ==
    Le(utilization, Num(1)) /\ Le(maxDeflection, deflectionLimit)

\* the results record, as rendered by renderBeamResults
app_results(metric, forces, Ast_prov, Ast_min, momentCapacity, shearCapacity, utilization, deflectionLimit, isSafe) ==
    [shown |-> TRUE, L |-> metric.L,
     maxShear |-> forces.maxShear, maxMoment |-> forces.maxMoment,
     maxDeflection |-> forces.maxDeflection,
     Ast |-> Ast_prov, Ast_min |-> Ast_min,
     momentCapacity |-> momentCapacity, shearCapacity |-> shearCapacity,
     utilization |-> utilization,
     deflectionCheck |-> IF Le(forces.maxDeflection, deflectionLimit) THEN "OK" ELSE "FAIL",
     designStatus |-> IF isSafe THEN "PASS - Design is adequate."
                      ELSE "FAIL - Section is inadequate.",
     stirrups |-> Num(200),
     isSafe |-> isSafe]

app_verdict(metric, forces, Ast_prov, Ast_min, momentCapacity, shearCapacity, utilization, deflectionLimit) ==
    app_results(metric, forces, Ast_prov, Ast_min, momentCapacity, shearCapacity,
                utilization, deflectionLimit,
                app_isSafe(utilization, forces.maxDeflection, deflectionLimit))

app_capacities(metric, forces, Ast_prov, Ast_min, momentCapacity, shearCapacity) ==
    app_verdict(metric, forces, Ast_prov, Ast_min, momentCapacity, shearCapacity,
                app_utilization(forces.maxMoment, momentCapacity),
                Div(Mul(metric.L, Num(1000)), Num(250)))

\* momentCapacity and shearCapacity of Ast_prov
app_provided(metric, forces, d, Ast_prov, Ast_min) ==
    app_capacities(metric, forces, Ast_prov, Ast_min,
                   engine_calculateMomentCapacity(Ast_prov, metric.fy, metric.fck, metric.b, d),
                   engine_calculateShearCapacity(metric.fck, metric.b, d, Ast_prov))

\* Ast_min = 0.0012 * metric.b * d;  Ast_prov = Math.max(Ast_req, Ast_min)
app_reinforcement(metric, forces, d, Ast_min) ==
    app_provided(metric, forces, d,
                 Max(engine_calculateSteelArea(Mul(forces.maxMoment, Num(1000000)),
                                               metric.fck, metric.fy, metric.b, d),
                     Ast_min),
                 Ast_min)

\* d = metric.D - metric.cover - 10
app_design(metric, forces, d) ==
    app_reinforcement(metric, forces, d, Mul(Mul(Dec(12, 4), metric.b), d))

app_forces(metric) ==
    app_design(metric, engine_calculateBeamForces(metric),
               Sub(Sub(metric.D, metric.cover), Num(10)))

\* the body of the try block of runBeamAnalysis, up to the results record
app_runBeamAnalysisResult(params, system) ==
    app_forces(app_withFactoredUDL(convertBeamStateToMetric(params, system)))

\* addToHistory(results): newest first, at most HistoryLimit items
HistoryLimit == 50
addToHistory(h, params, res) ==
    LET item == [parameters |-> params, isSafe |-> res.isSafe]
        h1   == <<item>> \o h
    IN  IF Len(h1) > HistoryLimit THEN SubSeq(h1, 1, Len(h1) - 1) ELSE h1

\* getBeamPropertyKey(id)
getBeamPropertyKey(id) ==
    CASE id = "beamType"   -> "type"
      [] id = "beamLength" -> "L"
      [] id = "beamWidth"  -> "b"
      [] id = "beamDepth"  -> "D"
      [] id = "beamDL"     -> "DL"
      [] id = "beamLL"     -> "LL"
      [] id = "beamFck"    -> "fck"
      [] id = "beamFy"     -> "fy"
      [] id = "beamCover"  -> "cover"
      [] OTHER             -> "undefined"

(***************************************************************************)
(* Beam forces, part_001: the switch(type) of its runBeamAnalysis, which   *)
(* reads no load position and uses E = 20000 for the deflection            *)
(***************************************************************************)
beamForces_v1(type, L, w, P, b, D) ==
    IF type = "simply-supported"
    THEN [left  |-> Add(Div(Mul(w, L), Num(2)), Mul(P, Dec(5, 1))),
          right |-> Add(Div(Mul(w, L), Num(2)), Mul(P, Dec(5, 1))),
          maxShear |-> Max(Add(Div(Mul(w, L), Num(2)), Mul(P, Dec(5, 1))),
                           Add(Div(Mul(w, L), Num(2)), Mul(P, Dec(5, 1)))),
          maxMoment |-> Add(Div(Mul(Mul(w, L), L), Num(8)), Div(Mul(P, L), Num(4))),
          maxDeflection |-> Mul(Div(Mul(Mul(Num(5), w), Pow4(L)),
                                    Mul(Mul(Num(384), Num(20000)),
                                        calculateMomentOfInertia(b, D))), Num(1000))]
    ELSE IF type = "cantilever"
    THEN [left  |-> Add(Mul(w, L), P), right |-> Zero,
          maxShear |-> Add(Mul(w, L), P),
          maxMoment |-> Add(Div(Mul(Mul(w, L), L), Num(2)), Mul(P, L)),
          maxDeflection |-> Mul(Div(Mul(w, Pow4(L)),
                                    Mul(Mul(Num(8), Num(20000)),
                                        calculateMomentOfInertia(b, D))), Num(1000))]
    ELSE IF type = "fixed"
    THEN [left  |-> Div(Mul(w, L), Num(2)), right |-> Div(Mul(w, L), Num(2)),
          maxShear |-> Div(Mul(w, L), Num(2)),
          maxMoment |-> Div(Mul(Mul(w, L), L), Num(12)),
          maxDeflection |-> Mul(Div(Mul(w, Pow4(L)),
                                    Mul(Mul(Num(384), Num(20000)),
                                        calculateMomentOfInertia(b, D))), Num(1000))]
    ELSE [left |-> Zero, right |-> Zero, maxShear |-> Zero, maxMoment |-> Zero,
          maxDeflection |-> Zero]

(***************************************************************************)
(* formatReinforcement(area) of part_000, part_001 and app.js: the text is *)
(* modelled by its parts, kind "bars" (num bars of diameter dia, and the   *)
(* area printed with them), "area" (only an area is printed) or "N/A"      *)
(***************************************************************************)
\* const bars = [8, 10, 12, 16, 20, 25, 32]
FormatBars == <<8, 10, 12, 16, 20, 25, 32>>

\* areaPerBar = Math.PI * dia * dia / 4
areaPerBar(dia) == Div(Mul(Mul(Pi, Num(dia)), Num(dia)), Num(4))

\* the for loop: the first diameter whose Math.ceil(area / areaPerBar) is <= cap,
\* dia = 0 when the loop ends without a return
RECURSIVE formatLoop(_, _, _)
formatLoop(bars, area, cap) ==
    IF bars = <<>> THEN [dia |-> 0, num |-> Zero]
    ELSE IF Le(Ceil(Div(area, areaPerBar(Head(bars)))), Num(cap))
         THEN [dia |-> Head(bars), num |-> Ceil(Div(area, areaPerBar(Head(bars))))]
         ELSE formatLoop(Tail(bars), area, cap)

\* part_000: at most 8 bars, else T16 bars of whatever number
formatResult(found, area) ==
    IF found.dia # 0
    THEN [done |-> TRUE, kind |-> "bars", num |-> found.num, dia |-> found.dia,
          area |-> ToFixed0(Mul(areaPerBar(found.dia), found.num))]
    ELSE [done |-> TRUE, kind |-> "bars", num |-> Ceil(Div(area, areaPerBar(16))), dia |-> 16,
          area |-> ToFixed0(Mul(areaPerBar(16), Ceil(Div(area, areaPerBar(16)))))]
formatReinforcement(area) == formatResult(formatLoop(FormatBars, area, 8), area)

\* part_001: at most 6 bars, else Math.ceil(area / 201) T16 bars; no area is printed
formatResult_v1(found, area) ==
    IF found.dia # 0
    THEN [done |-> TRUE, kind |-> "bars", num |-> found.num, dia |-> found.dia, area |-> Zero]
    ELSE [done |-> TRUE, kind |-> "bars", num |-> Ceil(Div(area, Num(201))), dia |-> 16,
          area |-> Zero]
formatReinforcement_v1(area) == formatResult_v1(formatLoop(FormatBars, area, 6), area)

\* app.js: 'N/A' for a negative area, at most 8 bars, else the area alone
app_formatResult(found, area) ==
    IF found.dia # 0
    THEN [done |-> TRUE, kind |-> "bars", num |-> found.num, dia |-> found.dia,
          area |-> ToFixed0(Mul(found.num, areaPerBar(found.dia)))]
    ELSE [done |-> TRUE, kind |-> "area", num |-> Zero, dia |-> 0, area |-> ToFixed0(area)]
app_formatReinforcement(area) ==
    IF Lt(area, Zero)
    THEN [done |-> TRUE, kind |-> "N/A", num |-> Zero, dia |-> 0, area |-> Zero]
    ELSE app_formatResult(formatLoop(FormatBars, area, 8), area)

(***************************************************************************)
(* Column solver, part_000: runColumnDesign reads the column fields        *)
(***************************************************************************)
\* slendernessX = lex / (0.3 * D), slendernessY = ley / (0.3 * b), lex = ley = H * 1000
colMaxSlenderness(H, b, D) ==
    Max(Div(Mul(H, Num(1000)), Mul(Dec(3, 1), D)), Div(Mul(H, Num(1000)), Mul(Dec(3, 1), b)))

\* Asc_axial = Math.max(0, (Pu * 1000 - 0.4 * fck * Ag) / (0.67 * fy - 0.4 * fck))
colAscAxial(Pu, fck, fy, Ag) ==
    Max(Zero, Div(Sub(Mul(Pu, Num(1000)), Mul(Mul(Dec(4, 1), fck), Ag)),
                  Sub(Mul(Dec(67, 2), fy), Mul(Dec(4, 1), fck))))

\* Pc = (0.4 * fck * Ag + 0.67 * fy * Asc) / 1000
colAxialCapacity(fck, fy, Ag, Asc) ==
    Div(Add(Mul(Mul(Dec(4, 1), fck), Ag), Mul(Mul(Dec(67, 2), fy), Asc)), Num(1000))

\* 0.138 * fck * b * D * D / 1e6, the moment capacity about one axis
colMomentCapacity(fck, b, D) ==
    Div(Mul(Mul(Mul(Mul(Dec(138, 3), fck), b), D), D), Num(1000000))

\* interactionRatio = Mux / Mux_cap + Muy / Muy_cap
colInteractionRatio(Mux, Muy, fck, b, D) ==
    Add(Div(Mux, colMomentCapacity(fck, b, D)), Div(Muy, colMomentCapacity(fck, D, b)))

\* barArea = Math.PI * barDia * barDia / 4
colBarArea(barDia) == Div(Mul(Mul(Pi, barDia), barDia), Num(4))

\* numBars = Math.max(4, Math.ceil(Asc / barArea))
colNumBars(Asc, barDia) == Max(Num(4), Ceil(Div(Asc, colBarArea(barDia))))

NoColumnResult ==
    [shown |-> FALSE, prog |-> "none", b |-> Zero, D |-> Zero, H |-> Zero, Pu |-> Zero,
     Mux |-> Zero, Muy |-> Zero, fck |-> Zero, fy |-> Zero,
     Asc_axial |-> Zero, bending |-> <<>>, Asc_min |-> Zero, Asc_max |-> Zero,
     Asc_req |-> Zero, Asc |-> Zero, numBars |-> Zero, Asc_provided |-> Zero,
     pt_provided |-> Zero, Pc |-> Zero, utilization |-> Zero, maxSlenderness |-> <<>>,
     interactionRatio |-> <<>>, ties |-> <<>>, isSafe |-> FALSE]

\* isSafe = utilization <= 1.0 && pt_provided >= 0.8 && pt_provided <= 4.0 &&
\*          maxSlenderness <= 50 && biaxialCheck === 'OK'
colIsSafe(utilization, pt_provided, maxSlenderness, interactionRatio) ==
    /\ Le(utilization, Num(1))
    /\ Ge(pt_provided, Dec(8, 1))
    /\ Le(pt_provided, Num(4))
    /\ Le(maxSlenderness, Num(50))
    /\ Le(interactionRatio, Num(1))

\* "Update results" and "Overall status": what runColumnDesign writes to the page
colPublish(in, Ag, Asc_axial, bending, Asc_req, Asc, Pc, numBars, Asc_provided) ==
    [shown |-> TRUE, prog |-> "p0", b |-> in.colWidth, D |-> in.colDepth, H |-> in.colHeight,
     Pu |-> in.colPu, Mux |-> in.colMux, Muy |-> in.colMuy, fck |-> in.colFck,
     fy |-> in.colFy,
     Asc_axial |-> Asc_axial, bending |-> bending,
     Asc_min |-> Mul(Dec(8, 3), Ag), Asc_max |-> Mul(Dec(4, 2), Ag),
     Asc_req |-> Asc_req, Asc |-> Asc, numBars |-> numBars, Asc_provided |-> Asc_provided,
     pt_provided |-> Mul(Div(Asc_provided, Ag), Num(100)),
     Pc |-> Pc, utilization |-> Div(in.colPu, Pc),
     maxSlenderness |-> <<colMaxSlenderness(in.colHeight, in.colWidth, in.colDepth)>>,
     interactionRatio |-> <<colInteractionRatio(in.colMux, in.colMuy, in.colFck,
                                                in.colWidth, in.colDepth)>>,
     ties |-> <<Max(Num(6), Div(in.colBarDiameter, Num(4))),
                Min(Min(Min(Mul(Num(16), in.colBarDiameter), Num(300)), in.colWidth),
                    in.colDepth)>>,
     isSafe |-> colIsSafe(Div(in.colPu, Pc), Mul(Div(Asc_provided, Ag), Num(100)),
                          colMaxSlenderness(in.colHeight, in.colWidth, in.colDepth),
                          colInteractionRatio(in.colMux, in.colMuy, in.colFck,
                                              in.colWidth, in.colDepth))]

\* "Reinforcement details": numBars bars of barDia, Asc_provided = numBars * barArea
colBars(in, Ag, Asc_axial, bending, Asc_req, Asc) ==
    colPublish(in, Ag, Asc_axial, bending, Asc_req, Asc,
               colAxialCapacity(in.colFck, in.colFy, Ag, Asc),
               colNumBars(Asc, in.colBarDiameter),
               Mul(colNumBars(Asc, in.colBarDiameter), colBarArea(in.colBarDiameter)))

\* Asc_req = Math.max(Asc_axial, Ast_moment_x, Ast_moment_y, Asc_min);
\* Asc = Math.min(Asc_req, Asc_max)
colSteel(in, Ag, Asc_axial, Ast_moment_x, Ast_moment_y) ==
    colBars(in, Ag, Asc_axial, <<Ast_moment_x, Ast_moment_y>>,
            Max(Max3(Asc_axial, Ast_moment_x, Ast_moment_y), Mul(Dec(8, 3), Ag)),
            Min(Max(Max3(Asc_axial, Ast_moment_x, Ast_moment_y), Mul(Dec(8, 3), Ag)),
                Mul(Dec(4, 2), Ag)))

\* Ag = b * D, d = D - cover - barDia/2; the axial and the two bending requirements
colDesign(in, Ag, d) ==
    colSteel(in, Ag, colAscAxial(in.colPu, in.colFck, in.colFy, Ag),
             calculateSteelArea(Mul(in.colMux, Num(1000000)), in.colFck, in.colFy,
                                in.colWidth, d),
             calculateSteelArea(Mul(in.colMuy, Num(1000000)), in.colFck, in.colFy,
                                in.colDepth, in.colWidth))

\* runColumnDesign: returns without writing when b, D or Pu is NaN
runColumnDesignReturns(in) == IsNaN(in.colWidth) \/ IsNaN(in.colDepth) \/ IsNaN(in.colPu)

runColumnDesignResult(in) ==
    colDesign(in, Mul(in.colWidth, in.colDepth),
              Sub(Sub(in.colDepth, in.colCover), Div(in.colBarDiameter, Num(2))))

(***************************************************************************)
(* Column solver, app.js: runColumnDesign reads this.state.column          *)
(***************************************************************************)
\* utilization = Math.max(axialLoad / axialCapacity, momentX / momentCapacityX,
\*                        momentY / momentCapacityY); isSafe = utilization <= 1.0
app_columnUtilization(params, axialCapacity) ==
    Max3(Div(params.axialLoad, axialCapacity),
         Div(params.momentX, colMomentCapacity(params.fck, params.width, params.depth)),
         Div(params.momentY, colMomentCapacity(params.fck, params.depth, params.width)))

\* the results record of runColumnDesign
app_columnResults(params, area, axialTerm, steelAreaRequired, astProvided, axialCapacity) ==
    [shown |-> TRUE, prog |-> "app", b |-> params.width, D |-> params.depth,
     H |-> params.height, Pu |-> params.axialLoad, Mux |-> params.momentX,
     Muy |-> params.momentY, fck |-> params.fck, fy |-> params.fy,
     Asc_axial |-> axialTerm, bending |-> <<>>,
     Asc_min |-> Mul(Dec(8, 3), area), Asc_max |-> Mul(Dec(4, 2), area),
     Asc_req |-> steelAreaRequired, Asc |-> astProvided, numBars |-> Zero,
     Asc_provided |-> astProvided,
     pt_provided |-> Mul(Div(astProvided, area), Num(100)),
     Pc |-> axialCapacity, utilization |-> app_columnUtilization(params, axialCapacity),
     maxSlenderness |-> <<>>, interactionRatio |-> <<>>, ties |-> <<>>,
     isSafe |-> Le(app_columnUtilization(params, axialCapacity), Num(1))]

\* astProvided = Math.min(steelAreaRequired, astMax) and the axial capacity with it
app_columnProvided(params, area, axialTerm, steelAreaRequired) ==
    app_columnResults(params, area, axialTerm, steelAreaRequired,
                      Min(steelAreaRequired, Mul(Dec(4, 2), area)),
                      colAxialCapacity(params.fck, params.fy, area,
                                       Min(steelAreaRequired, Mul(Dec(4, 2), area))))

\* (factoredLoad - concreteCapacity) / (0.67 * fy) with factoredLoad = 1.5 * pu
app_columnAxialTerm(params, area) ==
    Div(Sub(Mul(Dec(15, 1), Mul(params.axialLoad, Num(1000))),
            Mul(Mul(Dec(4, 1), params.fck), area)),
        Mul(Dec(67, 2), params.fy))

\* steelAreaRequired = Math.max(..., astMin)
app_columnRequired(params, area) ==
    app_columnProvided(params, area, app_columnAxialTerm(params, area),
                       Max(app_columnAxialTerm(params, area), Mul(Dec(8, 3), area)))

app_runColumnDesignResult(params) == app_columnRequired(params, Mul(params.width, params.depth))

(***************************************************************************)
(* Slab solver, app.js: runSlabDesign reads this.state.slab and calls the  *)
(* slab functions of the calculationEngine (part_002)                      *)
(***************************************************************************)
SlabTypes == {"one-way", "two-way", "cantilever"}

\* alpha_x = ratio <= 1 ? 0.062 : 0.062 + (0.055 - 0.062) * (ratio - 1)
engine_alpha_x(ratio) ==
    IF Le(ratio, Num(1)) THEN Dec(62, 3)
    ELSE Add(Dec(62, 3), Mul(Sub(Dec(55, 3), Dec(62, 3)), Sub(ratio, Num(1))))

\* the 'two-way' case of calculateSlabMoments
engine_twoWayMoment(lx, ly, factoredLoad) ==
    IF Le(Div(ly, lx), Num(2))
    THEN Mul(Mul(Mul(engine_alpha_x(Div(ly, lx)), factoredLoad), lx), lx)
    ELSE Div(Mul(Mul(factoredLoad, lx), lx), Num(8))

engine_calculateSlabMoments(slabType, length, width, factoredLoad) ==
    IF slabType = "one-way"
    THEN [maxMoment |-> Div(Mul(Mul(factoredLoad, Min(length, width)), Min(length, width)),
                            Num(8)),
          maxShear  |-> Div(Mul(factoredLoad, Min(length, width)), Num(2))]
    ELSE IF slabType = "two-way"
    THEN [maxMoment |-> engine_twoWayMoment(Min(length, width), Max(length, width),
                                            factoredLoad),
          maxShear  |-> Div(Mul(factoredLoad, Min(length, width)), Num(3))]
    ELSE IF slabType = "cantilever"
    THEN [maxMoment |-> Div(Mul(Mul(factoredLoad, length), length), Num(2)),
          maxShear  |-> Mul(factoredLoad, length)]
    ELSE [maxMoment |-> Zero, maxShear |-> Zero]

\* pt = (50 * fck / fy) * (1 - Math.sqrt(1 - (4.6 * R) / fck)), R = moment / (width * d * d)
engine_slabPt(R, fck, fy) ==
    Mul(Div(Mul(Num(50), fck), fy),
        Sub(Num(1), Sqrt(Sub(Num(1), Div(Mul(Dec(46, 1), R), fck)))))

engine_calculateSlabReinforcement(moment, fck, fy, width, effectiveDepth) ==
    Max(Div(Mul(Mul(engine_slabPt(Div(moment, Mul(Mul(width, effectiveDepth),
                                                  effectiveDepth)), fck, fy),
                    width), effectiveDepth), Num(100)),
        Mul(Mul(Dec(12, 4), width), effectiveDepth))

engine_deflectionCoefficient(slabType) ==
    IF slabType = "one-way" THEN Div(Num(5), Num(384))
    ELSE IF slabType = "two-way" THEN Div(Num(1), Num(250))
    ELSE IF slabType = "cantilever" THEN Div(Num(1), Num(8))
    ELSE Zero

engine_calculateSlabDeflection(moment, E, I, span, slabType) ==
    Div(Mul(Mul(Mul(engine_deflectionCoefficient(slabType), moment), span), span), Mul(E, I))

\* acr = Math.sqrt(Math.pow(cover + barDia/2, 2) + Math.pow(barSpacing/2, 2))
engine_acr(cover, barSpacing, barDia) ==
    Sqrt(Add(Mul(Add(cover, Div(barDia, Num(2))), Add(cover, Div(barDia, Num(2)))),
             Mul(Div(barSpacing, Num(2)), Div(barSpacing, Num(2)))))

\* (3 * acr * epsilon) / (1 + 2 * (acr - cover) / (0.85 * 150))
engine_crackWidthOf(acr, epsilon, cover) ==
    Div(Mul(Mul(Num(3), acr), epsilon),
        Add(Num(1), Div(Mul(Num(2), Sub(acr, cover)), Mul(Dec(85, 2), Num(150)))))

engine_calculateCrackWidth(stress, cover, barSpacing, barDia) ==
    engine_crackWidthOf(engine_acr(cover, barSpacing, barDia),
                        Div(stress, Mul(Num(2), Num(100000))), cover)

\* getOptimalBarDiameter(requiredArea): the first of 8, 10, 12, 16, 20 whose
\* areaPerBar * (1000 / 300) covers the area, else 16
SlabBars == <<8, 10, 12, 16, 20>>
RECURSIVE optimalBarLoop(_, _)
optimalBarLoop(bars, requiredArea) ==
    IF bars = <<>> THEN 16
    ELSE IF Ge(Mul(areaPerBar(Head(bars)), Div(Num(1000), Num(300))), requiredArea)
         THEN Head(bars)
         ELSE optimalBarLoop(Tail(bars), requiredArea)
getOptimalBarDiameter(requiredArea) == optimalBarLoop(SlabBars, requiredArea)

NoSlabResult ==
    [shown |-> FALSE, type |-> "", maxMoment |-> Zero, maxShear |-> Zero,
     astRequired |-> Zero, astMin |-> Zero, astMax |-> Zero, astProvided |-> Zero,
     barDia |-> 0, spacing |-> Zero, deflection |-> Zero, deflectionLimit |-> Zero,
     crackWidth |-> Zero, utilization |-> Zero, isSafe |-> FALSE]

\* isSafe = utilization <= 1.0 && deflectionOK && crackWidthOK
slabIsSafe(utilization, deflection, deflectionLimit, crackWidth) ==
    /\ Le(utilization, Num(1))
    /\ Le(deflection, deflectionLimit)
    /\ Le(crackWidth, Dec(3, 1))

\* the results record of runSlabDesign
slabResults(params, forces, d, astRequired, astProvided, barDia, spacing, deflection, utilization) ==
    [shown |-> TRUE, type |-> params.type,
     maxMoment |-> forces.maxMoment, maxShear |-> forces.maxShear,
     astRequired |-> astRequired,
     astMin |-> Mul(Mul(Dec(12, 4), Num(1000)), params.thickness),
     astMax |-> Mul(Mul(Dec(4, 2), Num(1000)), d),
     astProvided |-> astProvided, barDia |-> barDia, spacing |-> spacing,
     deflection |-> deflection,
     deflectionLimit |-> Div(Mul(Min(params.length, params.width), Num(1000)), Num(250)),
     crackWidth |-> engine_calculateCrackWidth(Mul(Dec(87, 2), params.fy), params.cover,
                                               spacing, Num(barDia)),
     utilization |-> utilization,
     isSafe |-> slabIsSafe(utilization, deflection,
                           Div(Mul(Min(params.length, params.width), Num(1000)), Num(250)),
                           engine_calculateCrackWidth(Mul(Dec(87, 2), params.fy),
                                                      params.cover, spacing, Num(barDia)))]

\* "Deflection check" and utilization: E = 5000 * sqrt(fck), I = 1000 * thickness^3 / 12
slabChecks(params, forces, d, astRequired, astProvided, barDia, spacing) ==
    slabResults(params, forces, d, astRequired, astProvided, barDia, spacing,
        engine_calculateSlabDeflection(forces.maxMoment, Mul(Num(5000), Sqrt(params.fck)),
            Div(Mul(Num(1000), Pow3(params.thickness)), Num(12)),
            Min(params.length, params.width), params.type),
        Div(forces.maxMoment,
            Div(Mul(Mul(Mul(Mul(Dec(138, 3), params.fck), Num(1000)), d), d), Num(1000000))))

\* "Calculate spacing": requiredBars = Math.ceil(astProvided / areaPerBar),
\* spacing = Math.min(1000 / requiredBars, 300)
slabSpacing(params, forces, d, astRequired, astProvided, barDia) ==
    slabChecks(params, forces, d, astRequired, astProvided, barDia,
               Min(Div(Num(1000), Ceil(Div(astProvided, areaPerBar(barDia)))), Num(300)))

\* astProvided = Math.min(Math.max(astRequired, astMin), astMax)
slabProvided(params, forces, d, astRequired, astProvided) ==
    slabSpacing(params, forces, d, astRequired, astProvided, getOptimalBarDiameter(astProvided))

slabReinforcement(params, forces, d, astRequired) ==
    slabProvided(params, forces, d, astRequired,
                 Min(Max(astRequired, Mul(Mul(Dec(12, 4), Num(1000)), params.thickness)),
                     Mul(Mul(Dec(4, 2), Num(1000)), d)))

\* astRequired = calculateSlabReinforcement(maxMoment * 1e6, fck, fy, 1000, effectiveDepth)
slabDesign(params, forces, d) ==
    slabReinforcement(params, forces, d,
        engine_calculateSlabReinforcement(Mul(forces.maxMoment, Num(1000000)), params.fck,
                                          params.fy, Num(1000), d))

\* effectiveDepth = thickness - cover - 8, factoredLoad = 1.5 * (DL + LL)
app_runSlabDesignResult(params) ==
    slabDesign(params,
               engine_calculateSlabMoments(params.type, params.length, params.width,
                                           Mul(Dec(15, 1), Add(params.DL, params.LL))),
               Sub(Sub(params.thickness, params.cover), Num(8)))

(***************************************************************************)
(* Values of the variables a specification leaves idle                     *)
(***************************************************************************)
NoForcesIn == [variant |-> "p0", type |-> "simply-supported", L |-> Num(6), w |-> Num(20), P |-> Zero, a |-> Num(3)]
NoForces   == [done |-> FALSE, reactions |-> <<>>, maxShear |-> Zero, maxMoment |-> Zero]
ForcesIdle == bfIn = NoForcesIn /\ bfOut = NoForces /\ sfd = <<>>
NoFormatIn == [variant |-> "p0", area |-> Zero]
NoFormat   == [done |-> FALSE, kind |-> "none", num |-> Zero, dia |-> 0, area |-> Zero]
FormatIdle == fmtIn = NoFormatIn /\ fmtOut = NoFormat
ColDomDefault ==
    [colWidth |-> Num(300), colDepth |-> Num(450), colHeight |-> Num(3), colPu |-> Num(1000),
     colMux |-> Num(50), colMuy |-> Num(30), colFck |-> Num(25), colFy |-> Num(500),
     colCover |-> Num(40), colBarDiameter |-> Num(16)]
ColumnDefault ==
    [type |-> "rectangular", width |-> Num(300), depth |-> Num(450), height |-> Num(3),
     axialLoad |-> Num(1000), momentX |-> Num(50), momentY |-> Num(30), fck |-> Num(25),
     fy |-> Num(500)]
SlabDefault ==
    [type |-> "one-way", length |-> Num(5), width |-> Num(4), thickness |-> Num(150),
     DL |-> Dec(25, 1), LL |-> Num(3), fck |-> Num(25), fy |-> Num(500), cover |-> Num(20)]
\* the values the column and slab fields are rendered with (uiManager.js 371-420, 510-562)
FormDefault ==
    [columnWidth |-> Num(300), columnDepth |-> Num(450), columnHeight |-> Num(3),
     columnAxialLoad |-> Num(1000), columnMomentX |-> Num(50), columnMomentY |-> Num(30),
     slabLength |-> Num(5), slabWidth |-> Num(4), slabThickness |-> Num(150),
     slabDL |-> Dec(25, 1), slabLL |-> Num(3), slabCover |-> Num(20)]
MembersIdle ==
    /\ colDom = ColDomDefault
    /\ column = ColumnDefault
    /\ slab = SlabDefault
    /\ colResult = NoColumnResult
    /\ slabResult = NoSlabResult
    /\ form = FormDefault
\* the values the beam fields of the app.js page are rendered with
BeamFieldsDefault ==
    [beamType |-> "simply-supported", beamLength |-> Num(6), beamWidth |-> Num(230),
     beamDepth |-> Num(450), beamDL |-> Num(10), beamLL |-> Num(15), beamFck |-> Num(25),
     beamFy |-> Num(500), beamCover |-> Num(25)]
UiIdle ==
    /\ bbsBars = <<>>
    /\ now = 0
    /\ lastRun = <<>>
    /\ beamFields = BeamFieldsDefault
    /\ pending = <<>>
    /\ timers = <<>>
    /\ overlay = "none"
OtherIdle  == ForcesIdle /\ FormatIdle /\ MembersIdle /\ UiIdle

(***************************************************************************)
(* Specification of the beam solvers                                       *)
(***************************************************************************)
MaxSteps == 2

Programs == {"p0", "app"}

DomDefault ==
    [beamLength |-> Num(6), beamUDL |-> Num(20), beamPointLoad |-> Zero,
     beamPointLoadPos |-> Num(3), beamType |-> "simply-supported",
     beamWidth |-> Num(230), beamDepth |-> Num(450), beamFck |-> Num(25),
     beamFy |-> Num(500), beamCover |-> Num(25)]

BeamDefault ==
    [type |-> "simply-supported", L |-> Num(6), b |-> Num(230), D |-> Num(450),
     DL |-> Num(10), LL |-> Num(15), fck |-> Num(25), fy |-> Num(500), cover |-> Num(25)]

\* what the user may enter into a field of the part_000 page
DomInputs ==
    {<<"beamLength", Zero>>, <<"beamLength", Num(2)>>, <<"beamLength", Num(6)>>,
     <<"beamUDL", Num(600)>>,
     <<"beamPointLoad", Num(50)>>, <<"beamType", "cantilever">>, <<"beamType", "fixed">>,
     <<"beamType", "continuous">>, <<"beamType", "propped">>, <<"beamWidth", Zero>>,
     <<"beamDepth", Num(85)>>,
     <<"beamFck", Num(28)>>, <<"beamFck", Num(30)>>, <<"beamFy", Num(415)>>}

\* the (id, value) pairs the input listener of app.js may pass to onInputChange
AppInputs ==
    {<<"beamLength", Zero>>, <<"beamLength", Num(2)>>, <<"beamLength", Num(6)>>,
     <<"beamType", "cantilever">>,
     <<"beamType", "fixed">>, <<"beamType", "continuous">>, <<"beamWidth", Zero>>,
     <<"beamDepth", Num(35)>>,
     <<"beamDepth", Num(30)>>, <<"beamDL", Zero>>, <<"beamLL", Num(100)>>, <<"beamFck", Num(30)>>,
     <<"beamFy", Num(415)>>, <<"beamUDL", Num(20)>>}

NoInvocation ==
    [outcome |-> "none", type |-> "", fck |-> Zero, L |-> Zero, b |-> Zero, D |-> Zero]

MaxRuns == 3

InitSolver ==
    /\ prog \in Programs
    /\ dom = DomDefault
    /\ beam = BeamDefault
    /\ history = <<>>
    /\ invocation = NoInvocation
    /\ result = NoResult
    /\ steps = 0
    /\ units = "metric"
    /\ log = <<>>

\* part_000: the user changes the value of an input field
P0_Input ==
    /\ prog = "p0"
    /\ steps < MaxSteps
    /\ \E in \in DomInputs : dom' = [dom EXCEPT ![in[1]] = in[2]]
    /\ steps' = steps + 1
    /\ UNCHANGED <<prog, beam, history, invocation, result, units, log>>
    /\ UNCHANGED sectionVars
    /\ UNCHANGED otherVars

\* part_000: runBeamAnalysis()
P0_RunBeamAnalysis ==
    /\ prog = "p0"
    /\ Len(log) < MaxRuns
    /\ LET outcome == runBeamAnalysisOutcome(dom)
       IN  /\ invocation' = [outcome |-> outcome, type |-> dom.beamType,
                             fck |-> dom.beamFck, L |-> dom.beamLength,
                             b |-> dom.beamWidth, D |-> dom.beamDepth]
           /\ result' = IF outcome = "published" THEN runBeamAnalysisResult(dom) ELSE result
           /\ log' = Append(log, [params |-> dom, units |-> "metric", outcome |-> outcome,
                                  result |-> IF outcome = "published" THEN result'
                                             ELSE NoResult])
    /\ UNCHANGED <<prog, dom, beam, history, steps, units>>
    /\ UNCHANGED sectionVars
    /\ UNCHANGED otherVars

\* the parameters an app.js invocation read, and that it showed its results
app_invocation(params) ==
    [outcome |-> "published", type |-> params.type, fck |-> params.fck, L |-> params.L,
     b |-> params.b, D |-> params.D]

\* app.js: runBeamAnalysis(), as run by runActiveAnalysis on the beam tab
app_runBeamAnalysis(params, system) ==
    /\ invocation' = app_invocation(params)
    /\ result' = app_runBeamAnalysisResult(params, system)
    /\ history' = addToHistory(history, params, result')
    /\ log' = Append(log, [params |-> params, units |-> system, outcome |-> "published",
                           result |-> result'])

\* app.js: init() runs the active analysis once the page is loaded
App_Init ==
    /\ prog = "app"
    /\ steps < MaxSteps
    /\ steps' = steps + 1
    /\ app_runBeamAnalysis(beam, units)
    /\ UNCHANGED <<prog, dom, beam, units>>
    /\ UNCHANGED sectionVars
    /\ UNCHANGED otherVars

\* app.js: onInputChange(id, value)
App_OnInputChange ==
    /\ prog = "app"
    /\ steps < MaxSteps
    /\ steps' = steps + 1
    /\ \E in \in AppInputs :
          LET key == getBeamPropertyKey(in[1])
          IN  IF key # "undefined"
              THEN /\ beam' = [beam EXCEPT ![key] = in[2]]
                   /\ app_runBeamAnalysis(beam', units)
              ELSE UNCHANGED <<beam, history, invocation, result, log>>
    /\ UNCHANGED <<prog, dom, units>>
    /\ UNCHANGED sectionVars
    /\ UNCHANGED otherVars

\* app.js: onUnitChange(newUnitSystem)
App_OnUnitChange ==
    /\ prog = "app"
    /\ steps < MaxSteps
    /\ steps' = steps + 1
    /\ \E system \in UnitSystems :
          /\ units' = system
          /\ app_runBeamAnalysis(beam, system)
    /\ UNCHANGED <<prog, dom, beam>>
    /\ UNCHANGED sectionVars
    /\ UNCHANGED otherVars

Next ==
    \/ P0_Input
    \/ P0_RunBeamAnalysis
    \/ App_Init
    \/ App_OnInputChange
    \/ App_OnUnitChange

(***************************************************************************)
(* Specification of the section formulas: the arguments are drawn from     *)
(* bounded sets, the actions call the functions                            *)
(***************************************************************************)
FckInputs == {Num(25), Num(30)}
FyInputs  == {Num(415), Num(500)}
BInputs   == {Num(0), Num(230)}
DInputs   == {Num(0), Num(40), Num(50), Num(415)}
\* moments, in thousandths of the variant's limiting moment
MomentRatios == {0, 500, 900, 1000, 1001, 1500, 3000, 20000}

MomentInputs(in) ==
    {Mul(Dec(r, 3), sf_limitingMoment(in.variant, in.fck, in.fy, in.b, in.d)) : r \in MomentRatios}
        \cup {Num(50000)}

NoSteel == [done |-> FALSE, M |-> Zero, branch |-> "none", Ast |-> Zero]
NoCap   == [done |-> FALSE, Ast |-> Zero, cap |-> Zero]
NoShear == [done |-> FALSE, cap |-> Zero]

SteelCall(in, M) ==
    [done   |-> TRUE,
     M      |-> M,
     branch |-> sf_steelBranch(in.variant, M, in.fck, in.fy, in.b, in.d),
     Ast    |-> sf_requiredSteelArea(in.variant, M, in.fck, in.fy, in.b, in.d)]

InitSection ==
    /\ sfIn \in [variant : Variants, fck : FckInputs, fy : FyInputs, b : BInputs, d : DInputs]
    /\ sfSteel = NoSteel
    /\ sfSteel2 = NoSteel
    /\ sfCap = NoCap
    /\ sfShear = NoShear
    /\ prog = "p0" /\ dom = DomDefault /\ beam = BeamDefault /\ history = <<>>
    /\ invocation = NoInvocation /\ result = NoResult /\ steps = 0
    /\ units = "metric" /\ log = <<>>
    /\ OtherIdle

CallSteelArea ==
    /\ ~sfSteel.done
    /\ \E M \in MomentInputs(sfIn) : sfSteel' = SteelCall(sfIn, M)
    /\ UNCHANGED <<sfIn, sfSteel2, sfCap, sfShear>>
    /\ UNCHANGED solverVars
    /\ UNCHANGED otherVars

CallSteelAreaAgain ==
    /\ sfSteel.done /\ ~sfSteel2.done
    /\ \E M \in MomentInputs(sfIn) : sfSteel2' = SteelCall(sfIn, M)
    /\ UNCHANGED <<sfIn, sfSteel, sfCap, sfShear>>
    /\ UNCHANGED solverVars
    /\ UNCHANGED otherVars

CallMomentCapacity ==
    /\ sfSteel.done /\ ~sfCap.done
    /\ sfCap' = [done |-> TRUE, Ast |-> sfSteel.Ast,
                 cap  |-> sf_momentCapacity(sfIn.variant, sfSteel.Ast, sfIn.fy, sfIn.fck, sfIn.b, sfIn.d)]
    /\ UNCHANGED <<sfIn, sfSteel, sfSteel2, sfShear>>
    /\ UNCHANGED solverVars
    /\ UNCHANGED otherVars

CallShearCapacity ==
    /\ sfSteel.done /\ ~sfShear.done
    /\ sfShear' = [done |-> TRUE,
                   cap  |-> sf_shearCapacity(sfIn.variant, sfIn.fck, sfIn.b, sfIn.d, sfSteel.Ast)]
    /\ UNCHANGED <<sfIn, sfSteel, sfSteel2, sfCap>>
    /\ UNCHANGED solverVars
    /\ UNCHANGED otherVars

NextSection ==
    \/ CallSteelArea
    \/ CallSteelAreaAgain
    \/ CallMomentCapacity
    \/ CallShearCapacity

SpecSection == InitSection /\ [][NextSection]_vars

\* the beam solvers, the section-formula variables idle
Init ==
    /\ InitSolver
    /\ sfIn = [variant |-> "p0", fck |-> Num(25), fy |-> Num(500), b |-> Num(230), d |-> Num(415)]
    /\ sfSteel = NoSteel /\ sfSteel2 = NoSteel /\ sfCap = NoCap /\ sfShear = NoShear
    /\ OtherIdle

Spec == Init /\ [][Next]_vars

(***************************************************************************)
(* Specification of the beam forces: the arguments are drawn from bounded  *)
(* sets, the action computes the forces as the variant's solver does       *)
(***************************************************************************)
ForceSpans == {Num(2), Num(3), Num(6)}
ForceUDLs  == {Zero, Num(10), Num(20)}
ForcePointLoads == {Zero, Num(50)}
ForcePositions  == {Zero, Num(2), Num(3)}
\* the support types of the pages, and one that no solver defines
ForceTypes == BeamTypes \cup {"propped"}

\* part_000 reads a load position; part_001 reads none (the formulas put the load at
\* midspan or at the free end, recorded here as a = L); the calculationEngine has
\* no point load
ForceInputs ==
    [variant : {"p0"}, type : ForceTypes, L : ForceSpans, w : ForceUDLs,
     P : ForcePointLoads, a : ForcePositions]
    \cup {[variant |-> "p1", type |-> t, L |-> L, w |-> w, P |-> P, a |-> L] :
             t \in ForceTypes, L \in ForceSpans, w \in ForceUDLs, P \in ForcePointLoads}
    \cup {[variant |-> "p2", type |-> t, L |-> L, w |-> w, P |-> Zero, a |-> Zero] :
             t \in ForceTypes, L \in ForceSpans, w \in ForceUDLs}

\* the number of intervals generateSFDData samples
SfdSteps == 100

\* the shear generateSFDData computes at position x
sfdShear(type, L, w, P, a, x) ==
    CASE type = "simply-supported" ->
            IF Gt(x, a) THEN Sub(Sub(Div(Mul(w, L), Num(2)), Mul(w, x)), P)
            ELSE Sub(Div(Mul(w, L), Num(2)), Mul(w, x))
      [] type = "cantilever" -> Add(Mul(w, Sub(L, x)), P)
      [] type = "fixed" -> Sub(Div(Mul(w, L), Num(2)), Mul(w, x))
      [] type = "continuous" ->
            IF Le(x, Div(L, Num(2))) THEN Sub(Div(Mul(Mul(Num(3), w), L), Num(8)), Mul(w, x))
            ELSE Sub(Div(Mul(Mul(Num(5), w), L), Num(8)), Mul(w, x))
      [] OTHER -> Zero

\* the point of index i: x = (i / steps) * L
sfdPoint(type, L, w, P, a, x) == [x |-> x, y |-> sfdShear(type, L, w, P, a, x)]

\* generateSFDData(type, L, w, P, a): the points of i = 0 .. steps, in order
generateSFDData(type, L, w, P, a) ==
    [k \in 1..(SfdSteps + 1) |-> sfdPoint(type, L, w, P, a, Mul(Div(Num(k - 1), Num(SfdSteps)), L))]

\* the forces of one call, for a 230 x 450 mm section of grade 25
bf_p0(in) ==
    beamForces(in.type, in.L, in.w, in.P, in.a, Dec(23, 2), Dec(45, 2), concreteEc(Num(25)))
bf_p1(in) ==
    beamForces_v1(in.type, in.L, in.w, in.P, Dec(23, 2), Dec(45, 2))
bf_p2(in) ==
    engine_calculateBeamForces([type |-> in.type, L |-> in.L, factoredUDL |-> in.w,
                                fck |-> Num(25), b |-> Num(230), D |-> Num(450)])

bf_withReactions(f) ==
    [done |-> TRUE, reactions |-> <<f.left, f.right>>, maxShear |-> f.maxShear,
     maxMoment |-> f.maxMoment]
bf_withoutReactions(f) ==
    [done |-> TRUE, reactions |-> <<>>, maxShear |-> f.maxShear, maxMoment |-> f.maxMoment]

bf_call(in) ==
    IF in.variant = "p0" THEN bf_withReactions(bf_p0(in))
    ELSE IF in.variant = "p1" THEN bf_withReactions(bf_p1(in))
    ELSE bf_withoutReactions(bf_p2(in))

InitForces ==
    /\ bfIn \in ForceInputs
    /\ bfOut = NoForces
    /\ sfd = <<>>
    /\ sfIn = [variant |-> "p0", fck |-> Num(25), fy |-> Num(500), b |-> Num(230), d |-> Num(415)]
    /\ sfSteel = NoSteel /\ sfSteel2 = NoSteel /\ sfCap = NoCap /\ sfShear = NoShear
    /\ prog = "p0" /\ dom = DomDefault /\ beam = BeamDefault /\ history = <<>>
    /\ invocation = NoInvocation /\ result = NoResult /\ steps = 0
    /\ units = "metric" /\ log = <<>>
    /\ FormatIdle
    /\ MembersIdle
    /\ UiIdle

CallBeamForces ==
    /\ ~bfOut.done
    /\ bfOut' = bf_call(bfIn)
    /\ UNCHANGED <<bfIn, sfd>>
    /\ UNCHANGED <<sectionVars, solverVars, formatVars, memberVars, uiVars>>

\* part_000: runBeamAnalysis passes the values it computed the forces from to
\* generateSFDData
CallGenerateSFD ==
    /\ bfIn.variant = "p0"
    /\ sfd = <<>>
    /\ sfd' = generateSFDData(bfIn.type, bfIn.L, bfIn.w, bfIn.P, bfIn.a)
    /\ UNCHANGED <<bfIn, bfOut>>
    /\ UNCHANGED <<sectionVars, solverVars, formatVars, memberVars, uiVars>>

NextForces ==
    \/ CallBeamForces
    \/ CallGenerateSFD

SpecForces == InitForces /\ [][NextForces]_vars

(***************************************************************************)
(* Specification of formatReinforcement: the area is drawn from a bounded  *)
(* set, the action formats it as the variant does                          *)
(***************************************************************************)
FormatVariants == {"p0", "p1", "app"}
\* areas in mm2, around the points where 8 bars of one diameter no longer suffice
FormatAreas ==
    {Num(n) : n \in {0, 1, 50, 51, 100, 300, 350, 402, 403, 628, 629, 904, 905, 1608, 1609,
                     2513, 2514, 3926, 3927, 6433, 6434, 6435, 7000, 20000, -5}}

fmt_call(in) ==
    IF in.variant = "p0" THEN formatReinforcement(in.area)
    ELSE IF in.variant = "p1" THEN formatReinforcement_v1(in.area)
    ELSE app_formatReinforcement(in.area)

InitFormat ==
    /\ fmtIn \in [variant : FormatVariants, area : FormatAreas]
    /\ fmtOut = NoFormat
    /\ sfIn = [variant |-> "p0", fck |-> Num(25), fy |-> Num(500), b |-> Num(230), d |-> Num(415)]
    /\ sfSteel = NoSteel /\ sfSteel2 = NoSteel /\ sfCap = NoCap /\ sfShear = NoShear
    /\ prog = "p0" /\ dom = DomDefault /\ beam = BeamDefault /\ history = <<>>
    /\ invocation = NoInvocation /\ result = NoResult /\ steps = 0
    /\ units = "metric" /\ log = <<>>
    /\ ForcesIdle
    /\ MembersIdle
    /\ UiIdle

CallFormatReinforcement ==
    /\ ~fmtOut.done
    /\ fmtOut' = fmt_call(fmtIn)
    /\ UNCHANGED fmtIn
    /\ UNCHANGED <<sectionVars, solverVars, forceVars, memberVars, uiVars>>

NextFormat == CallFormatReinforcement

SpecFormat == InitFormat /\ [][NextFormat]_vars

(***************************************************************************)
(* Specification of the column and slab solvers                            *)
(***************************************************************************)
\* what the user may enter into a column field of the part_000 page
ColDomInputs ==
    {<<"colPu", Num(1500)>>, <<"colPu", Num(5000)>>, <<"colHeight", Num(6)>>,
     <<"colMux", Num(150)>>, <<"colMuy", Num(80)>>, <<"colWidth", Num(200)>>,
     <<"colFck", Num(28)>>, <<"colFy", Num(415)>>, <<"colBarDiameter", Num(25)>>}

\* state.column and state.slab as a project file may hold them
ColumnFiles ==
    {ColumnDefault,
     [ColumnDefault EXCEPT !.axialLoad = Num(1500)],
     [ColumnDefault EXCEPT !.axialLoad = Num(5000)],
     [ColumnDefault EXCEPT !.height = Num(6)],
     [ColumnDefault EXCEPT !.momentX = Num(150), !.momentY = Num(80)]}
SlabFiles ==
    {SlabDefault,
     [SlabDefault EXCEPT !.type = "two-way"],
     [SlabDefault EXCEPT !.type = "cantilever", !.length = Num(2)],
     [SlabDefault EXCEPT !.fck = Num(40), !.fy = Num(415), !.LL = Num(40)]}
ProjectFiles ==
    [units : {"metric"}, beam : {BeamDefault}, column : ColumnFiles, slab : SlabFiles,
     history : {<<>>}]

\* the tab that is active when a project is imported
Tabs == {"beam-analysis", "column-design", "slab-design"}

InitMembers ==
    /\ prog \in Programs
    /\ dom = DomDefault /\ beam = BeamDefault /\ history = <<>>
    /\ invocation = NoInvocation /\ result = NoResult /\ steps = 0
    /\ units = "metric" /\ log = <<>>
    /\ sfIn = [variant |-> "p0", fck |-> Num(25), fy |-> Num(500), b |-> Num(230), d |-> Num(415)]
    /\ sfSteel = NoSteel /\ sfSteel2 = NoSteel /\ sfCap = NoCap /\ sfShear = NoShear
    /\ ForcesIdle /\ FormatIdle /\ MembersIdle /\ UiIdle

\* part_000: the user changes the value of a column field
P0_ColumnInput ==
    /\ prog = "p0"
    /\ steps < MaxSteps
    /\ \E in \in ColDomInputs : colDom' = [colDom EXCEPT ![in[1]] = in[2]]
    /\ steps' = steps + 1
    /\ UNCHANGED <<column, slab, colResult, slabResult, form>>
    /\ UNCHANGED <<prog, dom, beam, history, invocation, result, units, log>>
    /\ UNCHANGED <<sectionVars, forceVars, formatVars, uiVars>>

\* part_000: runColumnDesign()
P0_RunColumnDesign ==
    /\ prog = "p0"
    /\ colResult' = IF runColumnDesignReturns(colDom) THEN colResult
                    ELSE runColumnDesignResult(colDom)
    /\ UNCHANGED <<colDom, column, slab, slabResult, form>>
    /\ UNCHANGED solverVars
    /\ UNCHANGED <<sectionVars, forceVars, formatVars, uiVars>>

\* uiManager.js: importProject assigns the state of the file and runs the active analysis
App_ImportProject ==
    /\ prog = "app"
    /\ steps < MaxSteps
    /\ steps' = steps + 1
    /\ \E file \in ProjectFiles, tab \in Tabs :
          /\ units' = file.units
          /\ beam' = file.beam
          /\ column' = file.column
          /\ slab' = file.slab
          /\ IF tab = "beam-analysis"
             THEN /\ invocation' = app_invocation(file.beam)
                  /\ result' = app_runBeamAnalysisResult(file.beam, file.units)
                  /\ history' = addToHistory(file.history, file.beam, result')
                  /\ log' = Append(log, [params |-> file.beam, units |-> file.units,
                                         outcome |-> "published", result |-> result'])
             ELSE /\ history' = file.history
                  /\ UNCHANGED <<invocation, result, log>>
    /\ UNCHANGED <<colDom, colResult, slabResult, form>>
    /\ UNCHANGED <<prog, dom>>
    /\ UNCHANGED <<sectionVars, forceVars, formatVars, uiVars>>

\* app.js: runColumnDesign(), started by the run button of the column tab
App_RunColumnDesign ==
    /\ prog = "app"
    /\ steps < MaxSteps
    /\ steps' = steps + 1
    /\ colResult' = app_runColumnDesignResult(column)
    /\ history' = addToHistory(history, beam, colResult')
    /\ UNCHANGED <<colDom, column, slab, slabResult, form>>
    /\ UNCHANGED <<prog, dom, beam, invocation, result, units, log>>
    /\ UNCHANGED <<sectionVars, forceVars, formatVars, uiVars>>

\* app.js: runSlabDesign(), started by the run button of the slab tab
App_RunSlabDesign ==
    /\ prog = "app"
    /\ steps < MaxSteps
    /\ steps' = steps + 1
    /\ slabResult' = app_runSlabDesignResult(slab)
    /\ history' = addToHistory(history, beam, slabResult')
    /\ UNCHANGED <<colDom, column, slab, colResult, form>>
    /\ UNCHANGED <<prog, dom, beam, invocation, result, units, log>>
    /\ UNCHANGED <<sectionVars, forceVars, formatVars, uiVars>>

\* what the user may enter into a column or slab field of the app.js page
FormInputs ==
    {<<"columnAxialLoad", Num(1500)>>, <<"columnHeight", Num(6)>>, <<"columnWidth", Num(200)>>,
     <<"slabLength", Num(9)>>, <<"slabThickness", Num(200)>>, <<"slabLL", Num(5)>>}

\* id.startsWith('beam') for the ids of the input fields of the page
idStartsWithBeam(id) == id \in {"beamType", "beamLength", "beamWidth", "beamDepth", "beamDL", "beamLL", "beamFck", "beamFy", "beamCover"}

\* uiManager.js: the debounced handler of a column or slab field calls
\* onInputChange(id, value), which acts on ids starting with 'beam' only
App_FieldInput ==
    /\ prog = "app"
    /\ steps < MaxSteps
    /\ steps' = steps + 1
    /\ \E in \in FormInputs :
          /\ form' = [form EXCEPT ![in[1]] = in[2]]
          /\ IF idStartsWithBeam(in[1]) /\ getBeamPropertyKey(in[1]) # "undefined"
             THEN /\ beam' = [beam EXCEPT ![getBeamPropertyKey(in[1])] = in[2]]
                  /\ app_runBeamAnalysis(beam', units)
             ELSE UNCHANGED <<beam, history, invocation, result, log>>
    /\ UNCHANGED <<colDom, column, slab, colResult, slabResult>>
    /\ UNCHANGED <<prog, dom, units>>
    /\ UNCHANGED <<sectionVars, forceVars, formatVars, uiVars>>

NextMembers ==
    \/ App_FieldInput
    \/ P0_ColumnInput
    \/ P0_RunColumnDesign
    \/ App_ImportProject
    \/ App_RunColumnDesign
    \/ App_RunSlabDesign

SpecMembers == InitMembers /\ [][NextMembers]_vars


Positive(a) == Gt(a, Zero)
ValidSection == Positive(sfIn.fck) /\ Positive(sfIn.fy) /\ Positive(sfIn.b) /\ Positive(sfIn.d)
\* the claims' limiting moment, 0.138 * fck * b * d^2
Limit138 == Mul(Mul(Mul(Mul(Dec(138, 3), sfIn.fck), sfIn.b), sfIn.d), sfIn.d)

(***************************************************************************)
(* Properties                                                              *)
(***************************************************************************)
\* a dimension that a solver has to reject: NaN, zero or negative
NonPositiveOrNaN(x) == IsNaN(x) \/ Le(x, Zero)

\* C1: for every beam analysis, the reported isSafe is true if and only if the
\* moment capacity is at least the moment demand, the shear capacity is at least
\* the shear demand, and maxDeflection (mm) is strictly below span(mm)/250.
C1_IsSafeIffThreeChecks ==
    result.shown =>
        (result.isSafe <=>
            /\ Ge(result.momentCapacity, Mul(result.maxMoment, Num(1000000)))
            /\ Ge(result.shearCapacity, Mul(result.maxShear, Num(1000)))
            /\ Lt(result.maxDeflection, Div(Mul(result.L, Num(1000)), Num(250))))

\* C2: round trip. For positive fck, fy, b, d and 0 < M <= 0.138*fck*b*d^2 the
\* moment capacity of the steel area required for M is not below M.
C2_CapacityOfRequiredSteelCoversMoment ==
    (sfCap.done /\ ValidSection /\ Positive(sfSteel.M) /\ Le(sfSteel.M, Limit138))
        => Ge(sfCap.cap, sfSteel.M)

\* C3: requiredSteelArea is monotonically non-decreasing in M for fixed positive
\* fck, fy, b, d, also across the singly/doubly-reinforced boundary.
C3_SteelAreaMonotoneInMoment ==
    (sfSteel.done /\ sfSteel2.done /\ ValidSection /\ Le(sfSteel.M, sfSteel2.M))
        => Le(sfSteel.Ast, sfSteel2.Ast)

\* C4: in part_000 and in the calculationEngine, a moment exactly equal to
\* 0.138*fck*b*d^2 is answered by the singly-reinforced branch with a finite area,
\* and the doubly-reinforced branch is taken only for a moment strictly above it.
C4_LimitSection == ValidSection /\ sfIn.variant \in {"p0", "p2"}
C4_BoundaryRoutesToSingly ==
    \A s \in {sfSteel, sfSteel2} :
        (s.done /\ C4_LimitSection) =>
            /\ Eq(s.M, Limit138) => (s.branch = "singly" /\ IsFinite(s.Ast))
            /\ s.branch = "doubly" => Gt(s.M, Limit138)
\* part_000 called with a moment equal to the limit, then with one above it
C4_CalledAtLimit ==
    /\ C4_LimitSection /\ sfIn.variant = "p0"
    /\ sfSteel.done /\ Eq(sfSteel.M, Limit138) /\ sfSteel.branch = "singly"
    /\ sfSteel2.done /\ Gt(sfSteel2.M, Limit138) /\ sfSteel2.branch = "doubly"

\* C5: momentCapacity(Ast, fy, fck, b, d) never exceeds 0.138*fck*b*d^2; an
\* over-reinforced section is capped at the limiting moment.
C5_CapacityCappedAtLimit ==
    (sfCap.done /\ ValidSection /\ IsFinite(sfCap.Ast) /\ Ge(sfCap.Ast, Zero))
        => Le(sfCap.cap, Limit138)

\* C6: shearCapacity and momentCapacity are strictly positive for positive fck, b,
\* d and every positive steel area the solver passes, however large.
C6_CapacitiesPositive ==
    (ValidSection /\ sfSteel.done /\ IsFinite(sfSteel.Ast) /\ Positive(sfSteel.Ast))
        => /\ sfCap.done => Positive(sfCap.cap)
           /\ sfShear.done => Positive(sfShear.cap)

\* C7: when the computed moment capacity is 0 or negative, the utilization is a
\* fail value (finite, above 1: not Infinity, not NaN, not a passing ratio) and the
\* member is reported unsafe.
C7_NonPositiveCapacityFails ==
    (result.shown /\ Le(result.momentCapacity, Zero))
        => /\ ~result.isSafe
           /\ IsFinite(result.utilization)
           /\ Gt(result.utilization, Num(1))

\* C8: for M >= 0 and positive fck, fy, b, d, requiredSteelArea returns a finite,
\* non-negative area.
C8_SteelAreaFiniteNonNegative ==
    \A s \in {sfSteel, sfSteel2} :
        (s.done /\ ValidSection /\ Ge(s.M, Zero))
            => (IsFinite(s.Ast) /\ Ge(s.Ast, Zero))

\* C9: requiredSteelArea called with d <= 0 or b <= 0 ends in InvalidGeometry; it
\* returns no number (finite, NaN or infinite) computed from the degenerate section.
C9_DegenerateSectionRejected ==
    (sfSteel.done /\ (Le(sfIn.d, Zero) \/ Le(sfIn.b, Zero)))
        => /\ sfSteel.branch = "InvalidGeometry"
           /\ sfSteel.Ast.k \notin {"fin", "nan", "pinf", "ninf"}

\* C10: a beam solver invocation whose span, width or depth is non-positive or NaN
\* is rejected with an explicit invalid-input result; nothing derived from those
\* values is published.
C10_InvalidGeometryRejected ==
    (invocation.outcome # "none"
        /\ (NonPositiveOrNaN(invocation.L) \/ NonPositiveOrNaN(invocation.b)
               \/ NonPositiveOrNaN(invocation.D)))
        => /\ invocation.outcome = "invalid-input"
           /\ invocation.outcome # "published"

\* two Numbers that differ by rounding only (relative difference at most 1e-6)
Close(x, y) == Le(Abs(Sub(x, y)), Mul(Dec(1, 6), Max(Abs(x), Abs(y))))

\* C14: a simply-supported beam with L > 0, w >= 0, P >= 0 at 0 <= a <= L has
\* R_left = wL/2 + P(L-a)/L, R_right = wL/2 + Pa/L (their sum is wL + P),
\* maxShear = max(R_left, R_right) and M_max = wL^2/8 + Pa(L-a)/L; with P = 0 this
\* is wL^2/8 and wL/2, and L = 6, w = 20 gives 90 kNm and 60 kN.
C14_Left  == Add(Div(Mul(bfIn.w, bfIn.L), Num(2)), Div(Mul(bfIn.P, Sub(bfIn.L, bfIn.a)), bfIn.L))
C14_Right == Add(Div(Mul(bfIn.w, bfIn.L), Num(2)), Div(Mul(bfIn.P, bfIn.a), bfIn.L))
C14_Case ==
    /\ bfOut.done /\ bfIn.variant \in {"p0", "p2"} /\ bfIn.type = "simply-supported"
    /\ Gt(bfIn.L, Zero) /\ Ge(bfIn.w, Zero) /\ Ge(bfIn.P, Zero)
    /\ Ge(bfIn.a, Zero) /\ Le(bfIn.a, bfIn.L)
C14_SimplySupportedForces ==
    C14_Case =>
        /\ Eq(bfOut.maxShear, Max(C14_Left, C14_Right))
        /\ Eq(bfOut.maxMoment,
              Add(Div(Mul(Mul(bfIn.w, bfIn.L), bfIn.L), Num(8)),
                  Div(Mul(Mul(bfIn.P, bfIn.a), Sub(bfIn.L, bfIn.a)), bfIn.L)))
        /\ bfOut.reactions # <<>> =>
              /\ Eq(bfOut.reactions[1], C14_Left)
              /\ Eq(bfOut.reactions[2], C14_Right)
              /\ Close(Add(bfOut.reactions[1], bfOut.reactions[2]),
                       Add(Mul(bfIn.w, bfIn.L), bfIn.P))
        /\ IsZero(bfIn.P) =>
              /\ Eq(bfOut.maxMoment, Div(Mul(Mul(bfIn.w, bfIn.L), bfIn.L), Num(8)))
              /\ Eq(bfOut.maxShear, Div(Mul(bfIn.w, bfIn.L), Num(2)))
        /\ (IsZero(bfIn.P) /\ bfIn.L = Num(6) /\ bfIn.w = Num(20)) =>
              (bfOut.maxMoment = Num(90) /\ bfOut.maxShear = Num(60))
\* part_000 called with a point load of 50 kN at 2 m of a 6 m span under 20 kN/m
C14_PointLoadOffCentre ==
    /\ C14_Case /\ bfIn.variant = "p0"
    /\ bfIn.L = Num(6) /\ bfIn.w = Num(20) /\ bfIn.P = Num(50) /\ bfIn.a = Num(2)
    /\ Gt(bfOut.reactions[1], bfOut.reactions[2])
    /\ Gt(bfOut.maxMoment, Num(156)) /\ Lt(bfOut.maxMoment, Num(157))

\* C15: a cantilever with L > 0, w >= 0 and P >= 0 at position a has the single
\* reaction and maxShear wL + P and M_max = wL^2/2 + P*a; L = 3, w = 10, P = 0
\* gives 45 kNm and 30 kN. part_001 reads no position: its load is at a = L.
C15_Case ==
    /\ bfOut.done /\ bfIn.type = "cantilever"
    /\ Gt(bfIn.L, Zero) /\ Ge(bfIn.w, Zero) /\ Ge(bfIn.P, Zero)
C15_CantileverForces ==
    C15_Case =>
        /\ Eq(bfOut.maxShear, Add(Mul(bfIn.w, bfIn.L), bfIn.P))
        /\ Eq(bfOut.maxMoment,
              Add(Div(Mul(Mul(bfIn.w, bfIn.L), bfIn.L), Num(2)), Mul(bfIn.P, bfIn.a)))
        /\ bfOut.reactions # <<>> =>
              Eq(bfOut.reactions[1], Add(Mul(bfIn.w, bfIn.L), bfIn.P))
        /\ (IsZero(bfIn.P) /\ bfIn.L = Num(3) /\ bfIn.w = Num(10)) =>
              (bfOut.maxMoment = Num(45) /\ bfOut.maxShear = Num(30))
\* part_000 called with a point load of 50 kN at 2 m of a 3 m cantilever under 10 kN/m
C15_PointLoadOnCantilever ==
    /\ C15_Case /\ bfIn.variant = "p0"
    /\ bfIn.L = Num(3) /\ bfIn.w = Num(10) /\ bfIn.P = Num(50) /\ bfIn.a = Num(2)
    /\ bfOut.maxMoment = Num(145) /\ bfOut.maxShear = Num(80)

\* C20: formatReinforcement(area), for every area >= 0, returns the first diameter
\* of 8, 10, 12, 16, 20, 25, 32 whose bar count ceil(area / area-per-bar) is <= 8;
\* the bar count never exceeds 8 and count x area-per-bar >= area.
C20_Fits(dia) == Le(Ceil(Div(fmtIn.area, areaPerBar(dia))), Num(8))
C20_FirstFittingDiameter ==
    (fmtOut.done /\ Ge(fmtIn.area, Zero)) =>
        /\ fmtOut.kind = "bars"
        /\ Le(fmtOut.num, Num(8))
        /\ fmtOut.dia \in {8, 10, 12, 16, 20, 25, 32}
        /\ C20_Fits(fmtOut.dia)
        /\ \A dia \in {8, 10, 12, 16, 20, 25, 32} : C20_Fits(dia) => fmtOut.dia <= dia
        /\ Ge(Mul(fmtOut.num, areaPerBar(fmtOut.dia)), fmtIn.area)

\* C11: in every reinforcement result of the column and slab solvers the area
\* provided is at least max(area required, minimum area), also when the required
\* area exceeds the maximum-steel limit.  (The beam solver of part_000 takes
\* Ast = Math.max(Ast_req, Ast_min) and applies no maximum.)
C11_ProvidedCoversRequired ==
    /\ colResult.shown =>
          Ge(colResult.Asc_provided, Max(colResult.Asc_req, colResult.Asc_min))
    /\ slabResult.shown =>
          Ge(slabResult.astProvided, Max(slabResult.astRequired, slabResult.astMin))

\* the clamp of x into [lo, hi]
C12_Clamp(x, lo, hi) == Min(Max(x, lo), hi)

\* the column steel of the claim for a result r: the governing requirement of
\* axial load and the two bending requirements, clamped into [0.8% Ag, 4% Ag]
C12_Steel(r) ==
    C12_Clamp(Max3(Max(Zero, Div(Sub(Mul(r.Pu, Num(1000)),
                                     Mul(Mul(Dec(4, 1), r.fck), Mul(r.b, r.D))),
                                 Sub(Mul(Dec(67, 2), r.fy), Mul(Dec(4, 1), r.fck)))),
                   r.bending[1], r.bending[2]),
              Mul(Dec(8, 3), Mul(r.b, r.D)), Mul(Dec(4, 2), Mul(r.b, r.D)))

\* C12: the column solver takes the required steel as the maximum of the axial
\* requirement max(0, (Pu - 0.4 fck Ag) / (0.67 fy - 0.4 fck)) and the two bending
\* requirements, clamps it into [0.8% Ag, 4% Ag], computes
\* Pc = (0.4 fck Ag + 0.67 fy Asc) / 1000 from the clamped Asc and reports
\* utilization = Pu / Pc.
C12_ColumnSteelAndUtilization ==
    colResult.shown =>
        /\ Len(colResult.bending) = 2
        /\ colResult.Asc = C12_Steel(colResult)
        /\ colResult.Pc = Div(Add(Mul(Mul(Dec(4, 1), colResult.fck),
                                      Mul(colResult.b, colResult.D)),
                                  Mul(Mul(Dec(67, 2), colResult.fy), colResult.Asc)),
                              Num(1000))
        /\ colResult.utilization = Div(colResult.Pu, colResult.Pc)

\* the four checks of the claim on a column result r
C13_AxialOK(r)       == Le(Div(r.Pu, r.Pc), Num(1))
C13_SteelOK(r)       == Ge(r.pt_provided, Dec(8, 1)) /\ Le(r.pt_provided, Num(4))
C13_SlendernessOK(r) == Le(colMaxSlenderness(r.H, r.b, r.D), Num(50))
C13_BiaxialOK(r) ==
    Le(Add(Div(r.Mux, colMomentCapacity(r.fck, r.b, r.D)),
           Div(r.Muy, colMomentCapacity(r.fck, r.D, r.b))), Num(1))

\* C13: the column verdict is safe if and only if axial utilization <= 1, the
\* steel percentage is within [0.8, 4], the maximum slenderness is <= 50 and the
\* biaxial interaction Mux/Mux_cap + Muy/Muy_cap is <= 1.
C13_ColumnVerdictIffAllChecks ==
    colResult.shown =>
        (colResult.isSafe <=> (/\ C13_AxialOK(colResult)
                               /\ C13_SteelOK(colResult)
                               /\ C13_SlendernessOK(colResult)
                               /\ C13_BiaxialOK(colResult)))

\* the support types the running program's solver has a case for
C17_KnownTypes == IF prog = "p0" THEN BeamTypes ELSE EngineTypes

\* C16: a beam solver invocation of part_000 whose concrete grade is not a key of
\* the material table (e.g. 28) completes and writes its results instead of
\* aborting.  (Only invocations that pass the span validation and enter a case of
\* the switch read the material record.)
C16_UnknownGradeCompletes ==
    (prog = "p0" /\ invocation.outcome \in {"threw", "published"}
        /\ invocation.fck \notin ConcreteGrades)
        => invocation.outcome = "published"

\* C17: a beam solver invocation with a support type that is not one of the
\* defined archetypes fails hard; it yields no result record and no verdict.
C17_UnknownTypeFails ==
    (invocation.outcome \in {"threw", "published"} /\ invocation.type \notin C17_KnownTypes)
        => invocation.outcome = "threw"

C19_SolverLeavesStateAlone ==
    [][(log' # log) => (history' = history /\ result' = result)]_vars

\* the shear stress (maxShear * 1000) / (b * 1000 * d) of a logged part_000 invocation e
C28_ShearStress(e) ==
    Div(Mul(e.result.maxShear, Num(1000)),
        Mul(Mul(Div(e.params.beamWidth, Num(1000)), Num(1000)),
            Sub(Sub(Mul(Div(e.params.beamDepth, Num(1000)), Num(1000)),
                    Mul(Div(e.params.beamCover, Num(1000)), Num(1000))), Num(10))))

\* the invocation e of part_000 reported a computed stirrup spacing
C28_Computed(e) ==
    /\ e.outcome = "published"
    /\ Gt(C28_ShearStress(e), Mul(Dec(25, 2), Sqrt(e.params.beamFck)))

\* C28: whenever the beam solver of part_000 reports a computed stirrup spacing
\* (shear stress above 0.25 * sqrt(fck)), the spacing is positive and at most 300 mm.
C28_StirrupSpacingInRange ==
    prog = "p0" =>
        \A i \in 1..Len(log) :
            C28_Computed(log[i]) =>
                (Gt(log[i].result.stirrups, Zero) /\ Le(log[i].result.stirrups, Num(300)))

\* C29: the steel area the column solver of part_000 reports as provided (number
\* of bars times bar area, at least 4 bars) lies within [0.8% Ag, 4% Ag] whenever
\* Ag > 0 (every bar diameter the fields can hold is positive).
C29_ProvidedWithinSteelLimits ==
    (colResult.shown /\ colResult.prog = "p0" /\ Gt(Mul(colResult.b, colResult.D), Zero))
        => (/\ Ge(colResult.Asc_provided, colResult.Asc_min)
            /\ Le(colResult.Asc_provided, colResult.Asc_max))

\* C26: for every app.js beam solver invocation, under the metric and the imperial
\* unit system, the record convertBeamStateToMetric returns has the support type
\* of state.beam and unchanged material grades.
C26_ConversionKeepsTypeAndGrades ==
    prog = "app" =>
        \A i \in 1..Len(log) :
            /\ convertBeamStateToMetric(log[i].params, log[i].units).type = log[i].params.type
            /\ convertBeamStateToMetric(log[i].params, log[i].units).fck = log[i].params.fck
            /\ convertBeamStateToMetric(log[i].params, log[i].units).fy = log[i].params.fy

\* the span ratio and the one-way moment of the slab in state.slab
C21_Ratio == Div(Max(slab.length, slab.width), Min(slab.length, slab.width))
C21_OneWayMoment == Div(Mul(Mul(Mul(Dec(15, 1), Add(slab.DL, slab.LL)), Min(slab.length, slab.width)), Min(slab.length, slab.width)), Num(8))
\* C21: a slab design run classifies the slab as two-way exactly when the
\* ratio of the longer to the shorter span is at most 2, and reports the
\* one-way simple-beam moment w*lx^2/8 only for a slab whose ratio exceeds 2
C21_RunClassifiesByRatio == (prog = "app" /\ slabResult' # slabResult) => (((slabResult'.type = "two-way") <=> Le(C21_Ratio, Num(2))) /\ (slabResult'.maxMoment = C21_OneWayMoment => Gt(C21_Ratio, Num(2))))
C21_ClassifiedByRatio == [][C21_RunClassifiesByRatio]_vars

\* the parameter of state.column / state.slab that belongs to a field
C25_ParamOfField == [columnWidth |-> column.width, columnDepth |-> column.depth, columnHeight |-> column.height, columnAxialLoad |-> column.axialLoad, columnMomentX |-> column.momentX, columnMomentY |-> column.momentY, slabLength |-> slab.length, slabWidth |-> slab.width, slabThickness |-> slab.thickness, slabDL |-> slab.DL, slabLL |-> slab.LL, slabCover |-> slab.cover]
\* C25: a column or slab design run of app.js reads, for every column or slab
\* field the user has entered a value in, that value as its parameter
C25_RunReadsEnteredValues == (App_RunColumnDesign \/ App_RunSlabDesign) => \A f \in DOMAIN form : form[f] # FormDefault[f] => C25_ParamOfField[f] = form[f]
C25_EnteredValueIsUsed == [][C25_RunReadsEnteredValues]_vars

(***************************************************************************)
(* Specification of the bar bending schedule of app.js                     *)
(***************************************************************************)
MaxClock == 5

\* getBarWeight(diameter)
getBarWeight(diameter) ==
    CASE diameter = 6  -> Dec(222, 3)
      [] diameter = 8  -> Dec(395, 3)
      [] diameter = 10 -> Dec(617, 3)
      [] diameter = 12 -> Dec(888, 3)
      [] diameter = 16 -> Dec(158, 2)
      [] diameter = 20 -> Dec(247, 2)
      [] diameter = 25 -> Dec(385, 2)
      [] diameter = 32 -> Dec(631, 2)
      [] OTHER         -> Zero

\* what the fields bbsBarSize, bbsLength and bbsQuantity may hold at a click
BbsInputs == [barSize : {12, 16}, length : {Num(6), Zero}, quantity : {Num(2), Zero}]

\* the bar object addBarToSchedule builds; mark stands for the string 'B' + mark
newBar(in, list, id) ==
    [id |-> id, mark |-> Len(list) + 1, diameter |-> in.barSize, length |-> in.length,
     quantity |-> in.quantity, totalLength |-> Mul(in.length, in.quantity),
     weight |-> Mul(Mul(in.length, in.quantity), getBarWeight(in.barSize))]

\* bars.filter(b => b.id !== barId)
filterOutId(list, barId) == SelectSeq(list, LAMBDA b : b.id # barId)

\* addBarToSchedule(), started by a click on the add button; the clock has
\* advanced by the next click
AddBarToSchedule ==
    /\ now < MaxClock
    /\ now' = now + 1
    /\ UNCHANGED <<lastRun, eventVars>>
    /\ \E in \in BbsInputs :
          bbsBars' = IF Le(in.length, Zero) \/ Le(in.quantity, Zero)
                     THEN bbsBars
                     ELSE Append(bbsBars, newBar(in, bbsBars, now))
    /\ UNCHANGED <<sectionVars, solverVars, forceVars, formatVars, memberVars>>

\* deleteBarFromSchedule(barId), started by the delete button of a listed bar
DeleteBarFromSchedule ==
    /\ \E i \in 1..Len(bbsBars), confirm \in BOOLEAN :
          bbsBars' = IF confirm THEN filterOutId(bbsBars, bbsBars[i].id) ELSE bbsBars
    /\ UNCHANGED <<now, lastRun, eventVars>>
    /\ UNCHANGED <<sectionVars, solverVars, forceVars, formatVars, memberVars>>

\* uiManager.js: the click handler of the clear button
ClearSchedule ==
    /\ bbsBars # <<>>
    /\ \E confirm \in BOOLEAN : bbsBars' = IF confirm THEN <<>> ELSE bbsBars
    /\ UNCHANGED <<now, lastRun, eventVars>>
    /\ UNCHANGED <<sectionVars, solverVars, forceVars, formatVars, memberVars>>

InitSchedule ==
    /\ sfIn = [variant |-> "p0", fck |-> Num(25), fy |-> Num(500), b |-> Num(230), d |-> Num(415)]
    /\ sfSteel = NoSteel /\ sfSteel2 = NoSteel /\ sfCap = NoCap /\ sfShear = NoShear
    /\ prog = "app" /\ dom = DomDefault /\ beam = BeamDefault /\ history = <<>>
    /\ invocation = NoInvocation /\ result = NoResult /\ steps = 0
    /\ units = "metric" /\ log = <<>>
    /\ ForcesIdle /\ FormatIdle /\ MembersIdle /\ UiIdle

NextSchedule ==
    \/ AddBarToSchedule
    \/ DeleteBarFromSchedule
    \/ ClearSchedule

SpecSchedule == InitSchedule /\ [][NextSchedule]_vars

(***************************************************************************)
(* Specification of the history list of app.js: analyses, history clears   *)
(* and project imports                                                     *)
(***************************************************************************)
\* a history array of HistoryLimit + 1 items, as a project file may hold it
LongHistory == [k \in 1..(HistoryLimit + 1) |-> [parameters |-> BeamDefault, isSafe |-> TRUE]]

\* the project files the user may pick: importProject accepts every JSON
\* document whose type is 'civil-suite-project'
HistoryFiles ==
    [units : {"metric"}, beam : {BeamDefault, [BeamDefault EXCEPT !.L = Num(8)]},
     column : {ColumnDefault, [ColumnDefault EXCEPT !.axialLoad = Num(5000)]},
     slab : {SlabDefault}, history : {<<>>, LongHistory}]

\* the item addToHistory puts in front of the list
historyItem(params, res) == [parameters |-> params, isSafe |-> res.isSafe]

\* app.js: runColumnDesign(), started by the run button of the column tab
Hist_RunColumnDesign ==
    /\ prog = "app"
    /\ colResult' = app_runColumnDesignResult(column)
    /\ history' = addToHistory(history, beam, colResult')
    /\ lastRun' = <<historyItem(beam, colResult')>>
    /\ UNCHANGED <<colDom, column, slab, slabResult, form>>
    /\ UNCHANGED <<prog, dom, beam, invocation, result, steps, units, log>>
    /\ UNCHANGED <<bbsBars, now, eventVars>>
    /\ UNCHANGED <<sectionVars, forceVars, formatVars>>

\* uiManager.js: clearHistory()
Hist_ClearHistory ==
    /\ prog = "app"
    /\ history' = <<>>
    /\ lastRun' = <<>>
    /\ UNCHANGED <<prog, dom, beam, invocation, result, steps, units, log>>
    /\ UNCHANGED <<bbsBars, now, eventVars>>
    /\ UNCHANGED <<sectionVars, forceVars, formatVars, memberVars>>

\* uiManager.js: importProject assigns the state of the file, its history
\* included, and runs the active analysis
Hist_ImportProject ==
    /\ prog = "app"
    /\ steps < MaxSteps
    /\ steps' = steps + 1
    /\ \E file \in HistoryFiles, tab \in Tabs :
          /\ units' = file.units
          /\ beam' = file.beam
          /\ column' = file.column
          /\ slab' = file.slab
          /\ IF tab = "beam-analysis"
             THEN /\ invocation' = app_invocation(file.beam)
                  /\ result' = app_runBeamAnalysisResult(file.beam, file.units)
                  /\ history' = addToHistory(file.history, file.beam, result')
                  /\ log' = Append(log, [params |-> file.beam, units |-> file.units,
                                         outcome |-> "published", result |-> result'])
                  /\ lastRun' = <<historyItem(file.beam, result')>>
             ELSE /\ history' = file.history
                  /\ lastRun' = <<>>
                  /\ UNCHANGED <<invocation, result, log>>
    /\ UNCHANGED <<colDom, colResult, slabResult, form>>
    /\ UNCHANGED <<prog, dom>>
    /\ UNCHANGED <<bbsBars, now, eventVars>>
    /\ UNCHANGED <<sectionVars, forceVars, formatVars>>

InitHistory ==
    /\ sfIn = [variant |-> "p0", fck |-> Num(25), fy |-> Num(500), b |-> Num(230), d |-> Num(415)]
    /\ sfSteel = NoSteel /\ sfSteel2 = NoSteel /\ sfCap = NoCap /\ sfShear = NoShear
    /\ prog = "app" /\ dom = DomDefault /\ beam = BeamDefault /\ history = <<>>
    /\ invocation = NoInvocation /\ result = NoResult /\ steps = 0
    /\ units = "metric" /\ log = <<>>
    /\ ForcesIdle /\ FormatIdle /\ MembersIdle /\ UiIdle

NextHistory ==
    \/ Hist_RunColumnDesign
    \/ Hist_ClearHistory
    \/ Hist_ImportProject

SpecHistory == InitHistory /\ [][NextHistory]_vars

\* C22: the history list holds at most 50 items, and the item of the latest
\* analysis is at index 0
C22_HistoryBoundedNewestFirst == Len(history) <= HistoryLimit /\ (lastRun # <<>> => (history # <<>> /\ history[1] = lastRun[1]))

(***************************************************************************)
(* Specification of the timers of the app.js page: the debounce timer of   *)
(* the input fields, the callbacks of the run buttons and of hideLoading   *)
(***************************************************************************)
MaxEvents == 3

\* what the user may enter into a beam field of the app.js page
EventEdits == {<<"beamLength", Num(8)>>, <<"beamWidth", Num(300)>>, <<"beamLength", Num(6)>>}
EventFieldIds == {"beamLength", "beamWidth"}

\* the run buttons and the callback each one schedules after 100 ms
RunButtons == [runBeamButton |-> "runBeamAnalysis", runColumnButton |-> "runColumnDesign", runSlabButton |-> "runSlabDesign"]

\* the sequence without its element of index i
removeAt(s, i) == SubSeq(s, 1, i - 1) \o SubSeq(s, i + 1, Len(s))

\* uiManager.js: the handler of setupDebouncedInputs on an 'input' event of a
\* beam field clears the one timer all fields share and sets it for this field
Evt_EditBeamField ==
    /\ prog = "app"
    /\ steps < MaxEvents
    /\ steps' = steps + 1
    /\ \E in \in EventEdits :
          /\ beamFields' = [beamFields EXCEPT ![in[1]] = in[2]]
          /\ pending' = <<in[1]>>
    /\ UNCHANGED <<timers, overlay>>
    /\ UNCHANGED <<prog, dom, beam, history, invocation, result, units, log>>
    /\ UNCHANGED <<bbsBars, now, lastRun>>
    /\ UNCHANGED <<sectionVars, forceVars, formatVars, memberVars>>

\* the debounce timer fires after 300 ms: onInputChange(e.target.id, e.target.value)
Evt_FireDebounce ==
    /\ prog = "app"
    /\ pending # <<>>
    /\ pending' = <<>>
    /\ IF idStartsWithBeam(pending[1]) /\ getBeamPropertyKey(pending[1]) # "undefined"
       THEN /\ beam' = [beam EXCEPT ![getBeamPropertyKey(pending[1])] = beamFields[pending[1]]]
            /\ app_runBeamAnalysis(beam', units)
       ELSE UNCHANGED <<beam, history, invocation, result, log>>
    /\ UNCHANGED <<beamFields, timers, overlay>>
    /\ UNCHANGED <<prog, dom, steps, units>>
    /\ UNCHANGED <<bbsBars, now, lastRun>>
    /\ UNCHANGED <<sectionVars, forceVars, formatVars, memberVars>>

\* uiManager.js: the click handler of a run button: showLoading, then
\* setTimeout of the analysis
Evt_ClickRunButton ==
    /\ prog = "app"
    /\ steps < MaxEvents
    /\ steps' = steps + 1
    /\ overlay' = "flex"
    /\ \E button \in DOMAIN RunButtons : timers' = Append(timers, RunButtons[button])
    /\ UNCHANGED <<beamFields, pending>>
    /\ UNCHANGED <<prog, dom, beam, history, invocation, result, units, log>>
    /\ UNCHANGED <<bbsBars, now, lastRun>>
    /\ UNCHANGED <<sectionVars, forceVars, formatVars, memberVars>>

\* runBeamAnalysis(): neither its try block nor its catch block hides the overlay
evt_runBeamAnalysis(rest) ==
    /\ app_runBeamAnalysis(beam, units)
    /\ timers' = rest
    /\ UNCHANGED <<overlay, colResult, slabResult>>

\* runColumnDesign(): its finally block calls hideLoading, which schedules the
\* callback that sets display to 'none'
evt_runColumnDesign(rest) ==
    /\ colResult' = app_runColumnDesignResult(column)
    /\ history' = addToHistory(history, beam, colResult')
    /\ timers' = Append(rest, "displayNone")
    /\ UNCHANGED <<overlay, slabResult, invocation, result, log>>

\* runSlabDesign(): showLoading, the design, and hideLoading in its finally block
evt_runSlabDesign(rest) ==
    /\ overlay' = "flex"
    /\ slabResult' = app_runSlabDesignResult(slab)
    /\ history' = addToHistory(history, beam, slabResult')
    /\ timers' = Append(rest, "displayNone")
    /\ UNCHANGED <<colResult, invocation, result, log>>

\* the callback of hideLoading, 500 ms later
evt_displayNone(rest) ==
    /\ overlay' = "none"
    /\ timers' = rest
    /\ UNCHANGED <<colResult, slabResult, history, invocation, result, log>>

\* a scheduled callback runs
Evt_FireTimer ==
    /\ prog = "app"
    /\ \E i \in 1..Len(timers) :
          CASE timers[i] = "runBeamAnalysis" -> evt_runBeamAnalysis(removeAt(timers, i))
            [] timers[i] = "runColumnDesign" -> evt_runColumnDesign(removeAt(timers, i))
            [] timers[i] = "runSlabDesign"   -> evt_runSlabDesign(removeAt(timers, i))
            [] timers[i] = "displayNone"     -> evt_displayNone(removeAt(timers, i))
    /\ UNCHANGED <<beamFields, pending>>
    /\ UNCHANGED <<prog, dom, beam, steps, units>>
    /\ UNCHANGED <<colDom, column, slab, form>>
    /\ UNCHANGED <<bbsBars, now, lastRun>>
    /\ UNCHANGED <<sectionVars, forceVars, formatVars>>

InitEvents ==
    /\ sfIn = [variant |-> "p0", fck |-> Num(25), fy |-> Num(500), b |-> Num(230), d |-> Num(415)]
    /\ sfSteel = NoSteel /\ sfSteel2 = NoSteel /\ sfCap = NoCap /\ sfShear = NoShear
    /\ prog = "app" /\ dom = DomDefault /\ beam = BeamDefault /\ history = <<>>
    /\ invocation = NoInvocation /\ result = NoResult /\ steps = 0
    /\ units = "metric" /\ log = <<>>
    /\ ForcesIdle /\ FormatIdle /\ MembersIdle /\ UiIdle

NextEvents ==
    \/ Evt_EditBeamField
    \/ Evt_FireDebounce
    \/ Evt_ClickRunButton
    \/ Evt_FireTimer

\* what Evt_FireDebounce does to the debounce timer; a step of NextEvents
\* satisfies it exactly when it is a step of Evt_FireDebounce
DebounceRuns == pending # <<>> /\ pending' = <<>>

\* what Evt_FireTimer does to the scheduled callbacks: one of them is removed,
\* and a design run schedules the callback of hideLoading; a step of
\* NextEvents satisfies it exactly when it is a step of Evt_FireTimer
TimerRuns ==
    \E i \in 1..Len(timers) :
       timers' = IF timers[i] \in {"runColumnDesign", "runSlabDesign"}
                 THEN Append(removeAt(timers, i), "displayNone")
                 ELSE removeAt(timers, i)

\* the browser runs every callback that stays scheduled
SpecEvents == InitEvents /\ [][NextEvents]_vars /\ WF_pending(DebounceRuns) /\ WF_timers(TimerRuns)

\* C30: no two bars of the schedule carry the same bar mark
C30_BarMarksUnique == \A i, j \in 1..Len(bbsBars) : bbsBars[i].mark = bbsBars[j].mark => i = j

\* the case of C27: part_000, simply supported, w >= 0, P >= 0, 0 < a < L, with
\* the forces computed and the shear force diagram sampled
C27_Case == bfIn.variant = "p0" /\ bfIn.type = "simply-supported" /\ Ge(bfIn.w, Zero) /\ Ge(bfIn.P, Zero) /\ Gt(bfIn.a, Zero) /\ Lt(bfIn.a, bfIn.L) /\ bfOut.done /\ sfd # <<>>
\* the sampled diagram has steps + 1 points whose x increases from 0 to L
C27_Sampling == Len(sfd) = SfdSteps + 1 /\ Eq(sfd[1].x, Zero) /\ Eq(sfd[Len(sfd)].x, bfIn.L) /\ \A k \in 1..(Len(sfd) - 1) : Lt(sfd[k].x, sfd[k + 1].x)
\* C27: for a simply-supported beam with w >= 0 and P >= 0 at 0 < a < L the
\* sampled shear force diagram has steps + 1 points with x increasing from 0
\* to L, starts at R_left and ends at -R_right
C27_DiagramMatchesReactions == C27_Case => (C27_Sampling /\ Eq(sfd[1].y, bfOut.reactions[1]) /\ Eq(sfd[Len(sfd)].y, Neg(bfOut.reactions[2])))

\* C23: a value entered in a beam field that state.beam does not hold yet is
\* eventually applied to state.beam
C23_EveryEditApplied == \A id \in EventFieldIds : (beamFields[id] # beam[getBeamPropertyKey(id)]) ~> (beamFields[id] = beam[getBeamPropertyKey(id)])

\* C24: a loading overlay that is shown is eventually hidden
C24_OverlayEventuallyHidden == (overlay = "flex") ~> (overlay = "none")

====
